---- MODULE Spec2Model ----
(***************************************************************************)
(* PLG verdict engine (src/plg_core.py): tier routing, the four tier       *)
(* scorers, confidence scoring, staleness checking and research            *)
(* recommendations, composed by compute_verdict.                           *)
(*                                                                         *)
(* Encoding.                                                               *)
(*  - Optional[T]: None is the empty tuple, a present value v is <<v>>.    *)
(*  - A float is a fixed-point integer in thousandths (Scale = 1000): the  *)
(*    Python value 0.25 is 250, the Python value 25 is 25000.  Inputs are    *)
(*    two-decimal numbers (multiples of 10); the last digit carries the    *)
(*    sign of an IEEE-754 rounding error: 1.15 * 100 evaluates to          *)
(*    114.99999999999999 and is 114999 here.                               *)
(*  - Signal totals that carry 0.5 partial credit are counted in halves    *)
(*    (a total of 4.5 is 9); int() of a total is IntTrunc.                 *)
(*  - The confidence score is in hundredths (0.25 is 25).                  *)
(*  - A date string is a record [text, day]: text "date" with its day      *)
(*    number, or text "garbage" / "" for an unparseable / empty string.    *)
(*                                                                         *)
(* State.  data / result: the CompanyData a caller holds and the last      *)
(* VerdictResult returned; pc: the caller's position; now: the wall clock  *)
(* in days; calls: the first MaxCalls calls observed (argument, time,      *)
(* return value); info / yf_data: the manual database record and the live  *)
(* fetch that build_company_data merges; tickers / position / results /    *)
(* failed: a batch loop's input list, loop position, result list and the   *)
(* positions whose analysis raised; enhanced: the EnhancedVerdict of the   *)
(* valuation overlay; price_data / val_signal: the price bundle given to   *)
(* analyze_valuation and the ValuationSignal it returned.                  *)
(***************************************************************************)
EXTENDS Integers, Sequences, FiniteSets, TLC

VARIABLES data, result, pc, now,
          calls,
          info, yf_data,
          tickers, position, results, failed,
          enhanced, price_data, val_signal

vars == <<data, result, pc, now, calls, info, yf_data,
          tickers, position, results, failed, enhanced,
          price_data, val_signal>>

\* ------------------------------------------------------------------
\* Encoding helpers
\* ------------------------------------------------------------------
None == << >>

Some(v) == <<v>>

Val(x) == x[1]

Scale == 1000

Fx(n) == n * Scale

\* The two-decimal number h/100 (Dec(25) is 0.25).
Dec(h) == 10 * h

\* Two-decimal numbers k/100, -1 < k/100 < 2, whose double-precision product
\* with 100 is not the integer k: it falls just below k for RoundsBelow and
\* just above k for RoundsAbove.
RoundsBelow == {-56, -55, -28, -14, -7, 29, 57, 58, 113, 114, 115, 116}

RoundsAbove == {-58, -57, -29, 7, 14, 28, 55, 56, 109, 110, 111, 112}

\* value * 100 in double precision.
FloatMul100(v) ==
    LET k == v \div 10 IN
    100 * v + (IF k \in RoundsBelow THEN -1 ELSE IF k \in RoundsAbove THEN 1 ELSE 0)

\* x + c in double precision, for a normalized growth x and c = +10 or -10:
\* the rounding error of x is absorbed when the sum moves away from zero
\* and survives otherwise.
FloatAdd(x, c) ==
    LET eps == ((x + 1) % 10) - 1
        exact == x - eps
    IN IF eps # 0 /\ ((exact > 0 /\ c > 0) \/ (exact < 0 /\ c < 0))
       THEN exact + c
       ELSE x + c

Half(n) == 2 * n

IntTrunc(h) == (h \div 2) * 2

\* ------------------------------------------------------------------
\* Threshold constants
\* ------------------------------------------------------------------
NDR_ENTRY_THRESHOLD == 110

NDR_ELITE_THRESHOLD == 120

GROWTH_ENTRY_THRESHOLD == 25

GROWTH_ELITE_THRESHOLD == 30

GROWTH_PARTIAL_THRESHOLD == 20

GR_STRONG == 97

GR_HEALTHY == 93

GR_ACCEPTABLE == 90

DBNE_STRONG == 120

DBNE_HEALTHY == 110

DBNE_ACCEPTABLE == 100

LARGE_CUST_NDR_STRONG == 125

LARGE_CUST_NDR_HEALTHY == 115

LARGE_CUST_NDR_ACCEPTABLE == 105

NDR_TIER2_ACCEPTABLE == 100

IMPLIED_EXP_STRONG == 15

IMPLIED_EXP_HEALTHY == 5

RPO_ACCELERATING_DELTA == 10

CONSUMER_ARPU_GROWTH_BUY == 20

CONSUMER_USER_GROWTH_BUY == 15

CONSUMER_REVENUE_GROWTH_WATCH == 30

MARKETPLACE_GMV_GROWTH_BUY == 25

TRANSACTION_MARGIN_COMPRESSION_DELTA == 10

CONFIDENCE_HIGH == 70

CONFIDENCE_MEDIUM == 45

CONFIDENCE_LOW == 25

STALENESS_FINANCIAL == 100

STALENESS_COMPETITIVE == 180

ENTRY_STRONG_BUY == 5

ENTRY_BUY == 4

ENTRY_WATCH == 3

EXIT_SELL == 2

EXIT_WATCH == 1

SIGNAL_WEIGHTS ==
    [ ndr_tier_1 |-> 25, ndr_tier_2 |-> 15, ndr_tier_3 |-> 8,
      revenue_growth_current |-> 15, revenue_growth_trend |-> 10,
      arr_disclosed |-> 5,
      big_tech_threat_assessed |-> 10, category_stage_assessed |-> 10,
      large_customer_count |-> 5, customer_growth_rate |-> 5 ]

\* ------------------------------------------------------------------
\* Data classes
\* ------------------------------------------------------------------
BusinessModels == {"b2b_saas", "consumer", "marketplace", "transaction_based", "hybrid"}

ThreatLevels == {"unknown", "low", "medium", "high", "very_high"}

CategoryStages == {"unknown", "emerging", "early_growth", "mid_growth", "mature", "commoditizing"}

SwitchingCosts == {"unknown", "low", "medium", "high"}

TakeRateTrends == {None, Some("increasing"), Some("stable"), Some("decreasing")}

NdrTiers == 1..4

\* CompanyData with every field at its dataclass default
\* (ticker / business_model as the tests' make_company sets them).
CompanyData ==
    [ ticker |-> "TEST",
      business_model |-> "b2b_saas",
      revenue_growth_yoy |-> None,
      ndr |-> None,
      ndr_tier |-> 4,
      gross_retention |-> None,
      dbne |-> None,
      large_customer_ndr |-> None,
      implied_expansion |-> None,
      rpo_growth_yoy |-> None,
      arpu_growth_yoy |-> None,
      active_user_growth_yoy |-> None,
      gmv_growth_yoy |-> None,
      take_rate |-> None,
      take_rate_trend |-> None,
      tpv_growth_yoy |-> None,
      gross_profit_growth_yoy |-> None,
      arr_millions |-> None,
      customers_100k_plus |-> None,
      customer_growth_yoy |-> None,
      big_tech_threat |-> "unknown",
      category_stage |-> "unknown",
      switching_cost |-> "unknown",
      big_tech_announced |-> FALSE,
      revenue_decel_3q |-> FALSE,
      data_updated |-> None ]

\* VerdictResult as a tier scorer returns it: confidence, staleness and
\* recommendations are placeholders until compute_verdict fills them.
VerdictResult(d, verdict, rationale, tier, missing, entry, exit) ==
    [ ticker |-> d.ticker,
      verdict |-> verdict,
      confidence |-> "",
      confidence_score |-> 0,
      rationale |-> rationale,
      data_tier |-> tier,
      missing_signals |-> missing,
      entry_signals_met |-> entry,
      exit_signals_triggered |-> exit,
      staleness_warning |-> FALSE,
      stale_fields |-> << >>,
      research_recommendations |-> << >>,
      last_updated |-> None,
      raised |-> "none" ]

NoResult == VerdictResult(CompanyData, "", "", 0, << >>, 0, 0)

\* ------------------------------------------------------------------
\* Normalization helpers
\* ------------------------------------------------------------------
normalize_growth(value) ==
    IF value = None THEN None
    ELSE IF -Fx(1) < Val(value) /\ Val(value) < Fx(1) /\ Val(value) # 0
         THEN Some(FloatMul100(Val(value)))
         ELSE value

normalize_retention(value) ==
    IF value = None THEN None
    ELSE IF Val(value) < Fx(2)
         THEN Some(FloatMul100(Val(value)))
         ELSE value

\* ------------------------------------------------------------------
\* Confidence scoring
\* ------------------------------------------------------------------
retention_weight(d) ==
    IF d.ndr # None
    THEN (IF d.ndr_tier = 1 THEN SIGNAL_WEIGHTS.ndr_tier_1
          ELSE IF d.ndr_tier = 2 THEN SIGNAL_WEIGHTS.ndr_tier_2
          ELSE IF d.ndr_tier = 3 THEN SIGNAL_WEIGHTS.ndr_tier_3
          ELSE 0)
    ELSE IF d.dbne # None \/ d.gross_retention # None \/ d.large_customer_ndr # None
         THEN SIGNAL_WEIGHTS.ndr_tier_2
    ELSE IF d.implied_expansion # None
         THEN SIGNAL_WEIGHTS.ndr_tier_3
    ELSE 0

\* Mutant: the trend weight is credited only when deceleration is flagged.
calculate_confidence_score_mut(d) ==
    retention_weight(d)
    + (IF d.revenue_growth_yoy # None THEN SIGNAL_WEIGHTS.revenue_growth_current ELSE 0)
    + (IF d.revenue_decel_3q = TRUE THEN SIGNAL_WEIGHTS.revenue_growth_trend ELSE 0)
    + (IF d.arr_millions # None THEN SIGNAL_WEIGHTS.arr_disclosed ELSE 0)
    + (IF d.big_tech_threat # "unknown" THEN SIGNAL_WEIGHTS.big_tech_threat_assessed ELSE 0)
    + (IF d.category_stage # "unknown" THEN SIGNAL_WEIGHTS.category_stage_assessed ELSE 0)
    + (IF d.customers_100k_plus # None THEN SIGNAL_WEIGHTS.large_customer_count ELSE 0)
    + (IF d.customer_growth_yoy # None THEN SIGNAL_WEIGHTS.customer_growth_rate ELSE 0)

calculate_confidence_score(d) ==
    retention_weight(d)
    + (IF d.revenue_growth_yoy # None THEN SIGNAL_WEIGHTS.revenue_growth_current ELSE 0)
    + (IF d.revenue_decel_3q = TRUE \/ d.revenue_decel_3q = FALSE
       THEN SIGNAL_WEIGHTS.revenue_growth_trend ELSE 0)
    + (IF d.arr_millions # None THEN SIGNAL_WEIGHTS.arr_disclosed ELSE 0)
    + (IF d.big_tech_threat # "unknown" THEN SIGNAL_WEIGHTS.big_tech_threat_assessed ELSE 0)
    + (IF d.category_stage # "unknown" THEN SIGNAL_WEIGHTS.category_stage_assessed ELSE 0)
    + (IF d.customers_100k_plus # None THEN SIGNAL_WEIGHTS.large_customer_count ELSE 0)
    + (IF d.customer_growth_yoy # None THEN SIGNAL_WEIGHTS.customer_growth_rate ELSE 0)

score_to_confidence_level(score) ==
    IF score >= CONFIDENCE_HIGH THEN "HIGH"
    ELSE IF score >= CONFIDENCE_MEDIUM THEN "MEDIUM"
    ELSE IF score >= CONFIDENCE_LOW THEN "LOW"
    ELSE "INSUFFICIENT"

\* ------------------------------------------------------------------
\* Staleness checking
\* ------------------------------------------------------------------
DateStr(day) == [text |-> "date", day |-> day]

GarbageStr == [text |-> "garbage", day |-> 0]

EmptyStr == [text |-> "", day |-> 0]

StaleEntry(what, days) == [what |-> what, days |-> days]

\* datetime.strptime(s, '%Y-%m-%d'): the day, or ValueError.
strptime(s) ==
    IF s.text = "date" THEN [exc |-> "none", day |-> s.day]
    ELSE [exc |-> "ValueError", day |-> 0]

\* Mutant: the date is parsed outside any try / except.
check_staleness_mut(d, today) ==
    IF d.data_updated = None \/ Val(d.data_updated).text = ""
    THEN [exc |-> "none", is_stale |-> TRUE,
          stale_fields |-> << StaleEntry("data_updated (no date recorded)", 0) >>]
    ELSE LET updated == strptime(Val(d.data_updated)) IN
         IF updated.exc # "none"
         THEN [exc |-> updated.exc, is_stale |-> FALSE, stale_fields |-> << >>]
         ELSE LET days_old == today - updated.day
                  f1 == IF days_old > STALENESS_FINANCIAL
                        THEN << StaleEntry("financials", days_old) >> ELSE << >>
                  f2 == IF d.ndr # None /\ days_old > STALENESS_FINANCIAL
                        THEN << StaleEntry("NDR", days_old) >> ELSE << >>
                  f3 == IF days_old > STALENESS_COMPETITIVE
                        THEN << StaleEntry("competitive assessment", days_old) >> ELSE << >>
                  fields == f1 \o f2 \o f3
              IN [exc |-> "none", is_stale |-> Len(fields) > 0, stale_fields |-> fields]

\* Mutant: the thresholds are compared with >= (stale from the threshold day on).
check_staleness_inclusive(d, today) ==
    IF d.data_updated = None \/ Val(d.data_updated).text = ""
    THEN [exc |-> "none", is_stale |-> TRUE,
          stale_fields |-> << StaleEntry("data_updated (no date recorded)", 0) >>]
    ELSE LET updated == strptime(Val(d.data_updated)) IN
         IF updated.exc \in {"ValueError", "TypeError"}
         THEN [exc |-> "none", is_stale |-> TRUE,
               stale_fields |-> << StaleEntry("data_updated (invalid date format)", 0) >>]
         ELSE LET days_old == today - updated.day
                  f1 == IF days_old >= STALENESS_FINANCIAL
                        THEN << StaleEntry("financials", days_old) >> ELSE << >>
                  f2 == IF d.ndr # None /\ days_old >= STALENESS_FINANCIAL
                        THEN << StaleEntry("NDR", days_old) >> ELSE << >>
                  f3 == IF days_old >= STALENESS_COMPETITIVE
                        THEN << StaleEntry("competitive assessment", days_old) >> ELSE << >>
                  fields == f1 \o f2 \o f3
              IN [exc |-> updated.exc, is_stale |-> Len(fields) > 0, stale_fields |-> fields]

\* Mutant: a record whose competitive assessment is stale lists only that.
check_staleness_latest(d, today) ==
    IF d.data_updated = None \/ Val(d.data_updated).text = ""
    THEN [exc |-> "none", is_stale |-> TRUE,
          stale_fields |-> << StaleEntry("data_updated (no date recorded)", 0) >>]
    ELSE LET updated == strptime(Val(d.data_updated)) IN
         IF updated.exc \in {"ValueError", "TypeError"}
         THEN [exc |-> "none", is_stale |-> TRUE,
               stale_fields |-> << StaleEntry("data_updated (invalid date format)", 0) >>]
         ELSE LET days_old == today - updated.day
                  f1 == IF days_old > STALENESS_FINANCIAL
                        THEN << StaleEntry("financials", days_old) >> ELSE << >>
                  f2 == IF d.ndr # None /\ days_old > STALENESS_FINANCIAL
                        THEN << StaleEntry("NDR", days_old) >> ELSE << >>
                  f3 == IF days_old > STALENESS_COMPETITIVE
                        THEN << StaleEntry("competitive assessment", days_old) >> ELSE << >>
                  fields == IF f3 # << >> THEN f3 ELSE f1 \o f2
              IN [exc |-> updated.exc, is_stale |-> Len(fields) > 0, stale_fields |-> fields]

check_staleness(d, today) ==
    IF d.data_updated = None \/ Val(d.data_updated).text = ""
    THEN [exc |-> "none", is_stale |-> TRUE,
          stale_fields |-> << StaleEntry("data_updated (no date recorded)", 0) >>]
    ELSE LET updated == strptime(Val(d.data_updated)) IN
         IF updated.exc \in {"ValueError", "TypeError"}
         THEN [exc |-> "none", is_stale |-> TRUE,
               stale_fields |-> << StaleEntry("data_updated (invalid date format)", 0) >>]
         ELSE LET days_old == today - updated.day
                  f1 == IF days_old > STALENESS_FINANCIAL
                        THEN << StaleEntry("financials", days_old) >> ELSE << >>
                  f2 == IF d.ndr # None /\ days_old > STALENESS_FINANCIAL
                        THEN << StaleEntry("NDR", days_old) >> ELSE << >>
                  f3 == IF days_old > STALENESS_COMPETITIVE
                        THEN << StaleEntry("competitive assessment", days_old) >> ELSE << >>
                  fields == f1 \o f2 \o f3
              IN [exc |-> updated.exc, is_stale |-> Len(fields) > 0, stale_fields |-> fields]

\* ------------------------------------------------------------------
\* Research recommendations
\* ------------------------------------------------------------------
Rec(cond, text) == IF cond THEN << text >> ELSE << >>

recommend_research(d) ==
    Rec(d.ndr = None /\ d.ndr_tier = 4, "Search earnings call for NDR/NRR/DBNE disclosure")
    \o Rec(d.ndr = None /\ d.ndr_tier = 3, "Calculate implied expansion")
    \o Rec(d.gross_retention = None /\ d.ndr_tier >= 2, "Look for gross retention rate")
    \o Rec(d.revenue_growth_yoy = None, "Fetch latest quarterly revenue")
    \o Rec(d.big_tech_threat = "unknown", "Assess Big Tech threat")
    \o Rec(d.category_stage = "unknown", "Assess category stage")
    \o Rec(d.switching_cost = "unknown", "Assess switching costs")
    \o Rec(d.customers_100k_plus = None, "Look for $100K+ customer count")
    \o Rec(d.business_model = "consumer" /\ d.arpu_growth_yoy = None,
           "Find ARPU and active user metrics")
    \o Rec(d.business_model = "marketplace" /\ d.gmv_growth_yoy = None,
           "Find GMV and take rate")
    \o Rec(d.business_model = "transaction_based" /\ d.tpv_growth_yoy = None,
           "Find TPV and gross profit margin")

\* ------------------------------------------------------------------
\* Tier routing
\* ------------------------------------------------------------------
\* Mutant: the tier-2 NDR clause is missing from the router.
determine_data_tier_mut(d) ==
    IF d.ndr # None /\ d.ndr_tier = 1 THEN 1
    ELSE IF d.dbne # None THEN 2
    ELSE IF d.gross_retention # None THEN 2
    ELSE IF d.large_customer_ndr # None THEN 2
    ELSE IF d.implied_expansion # None THEN 3
    ELSE IF d.rpo_growth_yoy # None THEN 3
    ELSE 4

determine_data_tier(d) ==
    IF d.ndr # None /\ d.ndr_tier = 1 THEN 1
    ELSE IF d.ndr # None /\ d.ndr_tier = 2 THEN 2
    ELSE IF d.dbne # None THEN 2
    ELSE IF d.gross_retention # None THEN 2
    ELSE IF d.large_customer_ndr # None THEN 2
    ELSE IF d.implied_expansion # None THEN 3
    ELSE IF d.rpo_growth_yoy # None THEN 3
    ELSE IF d.business_model \in {"consumer", "marketplace", "transaction_based"} THEN 4
    ELSE 4

\* ------------------------------------------------------------------
\* Tier 1 verdict: direct NDR
\* ------------------------------------------------------------------
\* Mutant: the partial exit credit for a high Big Tech threat is missing.
tier1_exit_signals_mut(d) ==
    (IF d.ndr # None /\ Val(d.ndr) < Fx(NDR_ENTRY_THRESHOLD) THEN Half(1) ELSE 0)
    + (IF d.revenue_decel_3q THEN Half(1) ELSE 0)
    + (IF d.big_tech_announced THEN Half(1) ELSE 0)
    + (IF d.category_stage = "commoditizing" THEN Half(1)
       ELSE IF d.category_stage = "mature" THEN 1 ELSE 0)

tier1_exit_signals(d) ==
    (IF d.ndr # None /\ Val(d.ndr) < Fx(NDR_ENTRY_THRESHOLD) THEN Half(1) ELSE 0)
    + (IF d.revenue_decel_3q THEN Half(1) ELSE 0)
    + (IF d.big_tech_announced THEN Half(1) ELSE 0)
    + (IF d.category_stage = "commoditizing" THEN Half(1)
       ELSE IF d.category_stage = "mature" THEN 1 ELSE 0)
    + (IF d.big_tech_threat \in {"high", "very_high"} THEN 1 ELSE 0)

\* Mutant: medium switching costs earn full instead of partial credit.
tier1_entry_signals_mut(d, growth) ==
    (IF d.ndr # None /\ Val(d.ndr) >= Fx(NDR_ENTRY_THRESHOLD) THEN Half(1) ELSE 0)
    + (IF growth # None
       THEN (IF Val(growth) >= Fx(GROWTH_ENTRY_THRESHOLD) THEN Half(1)
             ELSE IF Val(growth) >= Fx(GROWTH_PARTIAL_THRESHOLD) THEN 1 ELSE 0)
       ELSE 0)
    + (IF d.category_stage \in {"emerging", "early_growth"} THEN Half(1)
       ELSE IF d.category_stage = "mid_growth" THEN 1 ELSE 0)
    + (IF d.big_tech_threat \in {"low", "medium"} THEN Half(1) ELSE 0)
    + (IF d.switching_cost \in {"high", "medium"} THEN Half(1) ELSE 0)

tier1_entry_signals(d, growth) ==
    (IF d.ndr # None /\ Val(d.ndr) >= Fx(NDR_ENTRY_THRESHOLD) THEN Half(1) ELSE 0)
    + (IF growth # None
       THEN (IF Val(growth) >= Fx(GROWTH_ENTRY_THRESHOLD) THEN Half(1)
             ELSE IF Val(growth) >= Fx(GROWTH_PARTIAL_THRESHOLD) THEN 1 ELSE 0)
       ELSE 0)
    + (IF d.category_stage \in {"emerging", "early_growth"} THEN Half(1)
       ELSE IF d.category_stage = "mid_growth" THEN 1 ELSE 0)
    + (IF d.big_tech_threat \in {"low", "medium"} THEN Half(1) ELSE 0)
    + (IF d.switching_cost = "high" THEN Half(1)
       ELSE IF d.switching_cost = "medium" THEN 1 ELSE 0)

tier1_missing(d, growth) ==
    Rec(d.ndr = None, "NDR")
    \o Rec(growth = None, "Revenue growth")
    \o Rec(d.category_stage = "unknown", "Category stage")
    \o Rec(d.big_tech_threat = "unknown", "Big Tech threat assessment")
    \o Rec(d.switching_cost = "unknown", "Switching cost assessment")

compute_verdict_tier1(d) ==
    LET growth == normalize_growth(d.revenue_growth_yoy)
        exit_signals == tier1_exit_signals(d)
        entry_signals == tier1_entry_signals(d, growth)
        missing == tier1_missing(d, growth)
        choice ==
            IF exit_signals >= Half(EXIT_SELL) THEN <<"SELL", "Exit signals">>
            ELSE IF exit_signals >= Half(EXIT_WATCH) THEN <<"WATCH", "Warning">>
            ELSE IF d.ndr # None /\ Val(d.ndr) >= Fx(NDR_ELITE_THRESHOLD)
                    /\ growth # None /\ Val(growth) >= Fx(GROWTH_ELITE_THRESHOLD)
                 THEN <<"STRONG_BUY", "Elite">>
            ELSE IF entry_signals >= Half(ENTRY_STRONG_BUY)
                 THEN <<"STRONG_BUY", "All 5 entry signals">>
            ELSE IF entry_signals >= Half(ENTRY_BUY) THEN <<"BUY", "Entry">>
            ELSE IF entry_signals >= Half(ENTRY_WATCH) THEN <<"WATCH", "Entry">>
            ELSE <<"AVOID", "Only">>
    IN VerdictResult(d, choice[1], choice[2], 1, missing,
                     IntTrunc(entry_signals), IntTrunc(exit_signals))

\* ------------------------------------------------------------------
\* Tier 2 verdict: variant metrics (GR, DBNE, large customer NDR)
\* ------------------------------------------------------------------
Reading(v, strong, healthy, acceptable) ==
    IF v >= Fx(strong) THEN "strong"
    ELSE IF v >= Fx(healthy) THEN "healthy"
    ELSE IF v >= Fx(acceptable) THEN "acceptable"
    ELSE "weak"

\* Mutant: the tier-2 NDR value contributes no reading.
retention_signals_mut(d) ==
    (IF d.dbne # None
     THEN {Reading(Val(normalize_retention(d.dbne)),
                   DBNE_STRONG, DBNE_HEALTHY, DBNE_ACCEPTABLE)} ELSE {})
    \cup (IF d.gross_retention # None
          THEN {Reading(Val(normalize_retention(d.gross_retention)),
                        GR_STRONG, GR_HEALTHY, GR_ACCEPTABLE)} ELSE {})
    \cup (IF d.large_customer_ndr # None
          THEN {Reading(Val(normalize_retention(d.large_customer_ndr)),
                        LARGE_CUST_NDR_STRONG, LARGE_CUST_NDR_HEALTHY,
                        LARGE_CUST_NDR_ACCEPTABLE)} ELSE {})

\* The readings collected in `signals`; the code only tests membership
\* and emptiness, so the list is a set here.
retention_signals(d) ==
    (IF d.dbne # None
     THEN {Reading(Val(normalize_retention(d.dbne)),
                   DBNE_STRONG, DBNE_HEALTHY, DBNE_ACCEPTABLE)} ELSE {})
    \cup (IF d.gross_retention # None
          THEN {Reading(Val(normalize_retention(d.gross_retention)),
                        GR_STRONG, GR_HEALTHY, GR_ACCEPTABLE)} ELSE {})
    \cup (IF d.large_customer_ndr # None
          THEN {Reading(Val(normalize_retention(d.large_customer_ndr)),
                        LARGE_CUST_NDR_STRONG, LARGE_CUST_NDR_HEALTHY,
                        LARGE_CUST_NDR_ACCEPTABLE)} ELSE {})
    \cup (IF d.ndr # None /\ d.ndr_tier = 2
          THEN {Reading(Val(d.ndr), NDR_ELITE_THRESHOLD, NDR_ENTRY_THRESHOLD,
                        NDR_TIER2_ACCEPTABLE)} ELSE {})

\* Mutant: the best reading is taken before the weak red flag is looked for.
interpret_retention_signal_mut(d) ==
    LET signals == retention_signals(d) IN
    IF signals = {} THEN "unknown"
    ELSE IF "strong" \in signals THEN "strong"
    ELSE IF "weak" \in signals THEN "weak"
    ELSE IF "healthy" \in signals THEN "healthy"
    ELSE "acceptable"

interpret_retention_signal(d) ==
    LET signals == retention_signals(d) IN
    IF signals = {} THEN "unknown"
    ELSE IF "weak" \in signals THEN "weak"
    ELSE IF "strong" \in signals THEN "strong"
    ELSE IF "healthy" \in signals THEN "healthy"
    ELSE "acceptable"

\* Mutant: a mature category counts as a full exit signal.
tier2_exit_signals_mut(d) ==
    (IF d.revenue_decel_3q THEN Half(1) ELSE 0)
    + (IF d.big_tech_announced THEN Half(1) ELSE 0)
    + (IF d.category_stage \in {"commoditizing", "mature"} THEN Half(1) ELSE 0)
    + (IF d.big_tech_threat \in {"high", "very_high"} THEN 1 ELSE 0)

tier2_exit_signals(d) ==
    (IF d.revenue_decel_3q THEN Half(1) ELSE 0)
    + (IF d.big_tech_announced THEN Half(1) ELSE 0)
    + (IF d.category_stage = "commoditizing" THEN Half(1)
       ELSE IF d.category_stage = "mature" THEN 1 ELSE 0)
    + (IF d.big_tech_threat \in {"high", "very_high"} THEN 1 ELSE 0)

tier2_entry_signals(retention_signal, growth) ==
    (IF retention_signal \in {"strong", "healthy"} THEN Half(1) ELSE 0)
    + (IF growth # None /\ Val(growth) >= Fx(GROWTH_ENTRY_THRESHOLD) THEN Half(1)
       ELSE IF growth # None /\ Val(growth) >= Fx(GROWTH_PARTIAL_THRESHOLD) THEN 1
       ELSE 0)

compute_verdict_tier2(d) ==
    LET growth == normalize_growth(d.revenue_growth_yoy)
        retention_signal == interpret_retention_signal(d)
        exit_signals == tier2_exit_signals(d)
        entry_signals == tier2_entry_signals(retention_signal, growth)
    IN
    IF retention_signal = "weak"
    THEN VerdictResult(d, "SELL", "Tier 2: Weak retention", 2, << >>, 0, Half(1))
    ELSE IF exit_signals >= Half(EXIT_SELL)
    THEN VerdictResult(d, "SELL", "Tier 2: Exit signals", 2, << >>, 0, exit_signals)
    ELSE IF retention_signal = "strong" /\ growth # None
            /\ Val(growth) >= Fx(GROWTH_ENTRY_THRESHOLD)
    THEN VerdictResult(d, "BUY", "Tier 2: Strong retention + growth", 2,
                       Rec(growth = None, "Revenue growth"),
                       IntTrunc(entry_signals), IntTrunc(exit_signals))
    ELSE IF retention_signal \in {"healthy", "strong"} /\ growth # None
            /\ Val(growth) >= Fx(GROWTH_PARTIAL_THRESHOLD)
    THEN VerdictResult(d, "WATCH", "Tier 2: Verify with Tier 1 data", 2,
                       Rec(growth = None, "Revenue growth"),
                       IntTrunc(entry_signals), IntTrunc(exit_signals))
    ELSE VerdictResult(d, "WATCH", "Tier 2: Incomplete data", 2,
                       Rec(growth = None, "Revenue growth")
                       \o << "Direct NDR for higher confidence" >>,
                       IntTrunc(entry_signals), IntTrunc(exit_signals))

\* ------------------------------------------------------------------
\* Tier 3 verdict: derived signals
\* ------------------------------------------------------------------
\* Mutant: a flat implied expansion (0%) reads modest instead of negative.
tier3_expansion_mut(d) ==
    IF d.implied_expansion # None
    THEN LET ie == normalize_growth(d.implied_expansion) IN
         IF ie # None
         THEN (IF Val(ie) > Fx(IMPLIED_EXP_STRONG) THEN "strong"
               ELSE IF Val(ie) > Fx(IMPLIED_EXP_HEALTHY) THEN "healthy"
               ELSE IF Val(ie) >= 0 THEN "modest"
               ELSE "negative")
         ELSE "unknown"
    ELSE "unknown"

tier3_expansion(d) ==
    IF d.implied_expansion # None
    THEN LET ie == normalize_growth(d.implied_expansion) IN
         IF ie # None
         THEN (IF Val(ie) > Fx(IMPLIED_EXP_STRONG) THEN "strong"
               ELSE IF Val(ie) > Fx(IMPLIED_EXP_HEALTHY) THEN "healthy"
               ELSE IF Val(ie) > 0 THEN "modest"
               ELSE "negative")
         ELSE "unknown"
    ELSE "unknown"

tier3_rpo_signal(d, growth) ==
    IF d.rpo_growth_yoy # None /\ growth # None
    THEN LET rpo == normalize_growth(d.rpo_growth_yoy) IN
         IF rpo # None
         THEN (IF Val(rpo) > FloatAdd(Val(growth), Fx(RPO_ACCELERATING_DELTA)) THEN "accelerating"
               ELSE IF Val(rpo) > Val(growth) THEN "healthy"
               ELSE "decelerating")
         ELSE "unknown"
    ELSE "unknown"

compute_verdict_tier3(d) ==
    LET growth == normalize_growth(d.revenue_growth_yoy)
        expansion == tier3_expansion(d)
        rpo_signal == tier3_rpo_signal(d, growth)
    IN
    IF expansion = "negative"
    THEN VerdictResult(d, "SELL", "Tier 3: Negative implied expansion", 3, << >>, 0, Half(1))
    ELSE IF expansion = "strong" /\ growth # None
            /\ Val(growth) >= Fx(GROWTH_ENTRY_THRESHOLD)
    THEN VerdictResult(d, "WATCH", "Tier 3: Strong implied expansion", 3,
                       << "Direct NDR or variant metric for BUY upgrade" >>
                       \o Rec(growth = None, "Revenue growth"), 0, 0)
    ELSE IF rpo_signal = "accelerating"
    THEN VerdictResult(d, "WATCH", "Tier 3: RPO accelerating", 3,
                       << "NDR or retention data" >>
                       \o Rec(growth = None, "Revenue growth"), 0, 0)
    ELSE VerdictResult(d, "WATCH", "Tier 3: Insufficient retention data", 3,
                       << "NDR, GR, or DBNE for meaningful verdict" >>
                       \o Rec(growth = None, "Revenue growth"), 0, 0)

\* ------------------------------------------------------------------
\* Tier 4 verdict: non-SaaS models / insufficient data
\* ------------------------------------------------------------------
\* Mutant: the BUY thresholds are inclusive.
compute_verdict_tier4_consumer_mut(d, growth, missing) ==
    LET arpu == normalize_growth(d.arpu_growth_yoy)
        user_growth == normalize_growth(d.active_user_growth_yoy)
        missing2 == missing \o Rec(arpu = None, "ARPU growth")
                            \o Rec(user_growth = None, "Active user growth")
    IN
    IF arpu # None /\ Val(arpu) < 0
    THEN VerdictResult(d, "SELL", "Tier 4 Consumer: ARPU declining", 4, missing2, 0, Half(1))
    ELSE IF arpu # None /\ Val(arpu) >= Fx(CONSUMER_ARPU_GROWTH_BUY)
            /\ user_growth # None /\ Val(user_growth) >= Fx(CONSUMER_USER_GROWTH_BUY)
    THEN VerdictResult(d, "BUY", "Tier 4 Consumer: Strong ARPU + user growth", 4,
                       missing2, Half(2), 0)
    ELSE IF growth # None /\ Val(growth) > Fx(CONSUMER_REVENUE_GROWTH_WATCH)
    THEN VerdictResult(d, "WATCH", "Tier 4 Consumer: Strong revenue growth", 4,
                       missing2, Half(1), 0)
    ELSE VerdictResult(d, "WATCH", "Tier 4 Consumer: Insufficient consumer metrics", 4,
                       missing2, 0, 0)

compute_verdict_tier4_consumer(d, growth, missing) ==
    LET arpu == normalize_growth(d.arpu_growth_yoy)
        user_growth == normalize_growth(d.active_user_growth_yoy)
        missing2 == missing \o Rec(arpu = None, "ARPU growth")
                            \o Rec(user_growth = None, "Active user growth")
    IN
    IF arpu # None /\ Val(arpu) < 0
    THEN VerdictResult(d, "SELL", "Tier 4 Consumer: ARPU declining", 4, missing2, 0, Half(1))
    ELSE IF arpu # None /\ Val(arpu) > Fx(CONSUMER_ARPU_GROWTH_BUY)
            /\ user_growth # None /\ Val(user_growth) > Fx(CONSUMER_USER_GROWTH_BUY)
    THEN VerdictResult(d, "BUY", "Tier 4 Consumer: Strong ARPU + user growth", 4,
                       missing2, Half(2), 0)
    ELSE IF growth # None /\ Val(growth) > Fx(CONSUMER_REVENUE_GROWTH_WATCH)
    THEN VerdictResult(d, "WATCH", "Tier 4 Consumer: Strong revenue growth", 4,
                       missing2, Half(1), 0)
    ELSE VerdictResult(d, "WATCH", "Tier 4 Consumer: Insufficient consumer metrics", 4,
                       missing2, 0, 0)

\* Mutant: a decreasing take rate is an exit (SELL) instead of a warning.
compute_verdict_tier4_marketplace_mut(d, growth, missing) ==
    LET gmv == normalize_growth(d.gmv_growth_yoy)
        missing2 == missing \o Rec(gmv = None, "GMV growth")
                            \o Rec(d.take_rate_trend = None, "Take rate trend")
    IN
    IF d.take_rate_trend = Some("decreasing")
    THEN VerdictResult(d, "SELL", "Tier 4 Marketplace: Take rate decreasing", 4,
                       missing2, 0, Half(1))
    ELSE IF gmv # None /\ Val(gmv) > Fx(MARKETPLACE_GMV_GROWTH_BUY)
            /\ d.take_rate_trend # Some("decreasing")
    THEN VerdictResult(d, "BUY", "Tier 4 Marketplace: Strong GMV growth", 4,
                       missing2, Half(2), 0)
    ELSE VerdictResult(d, "WATCH", "Tier 4 Marketplace: Insufficient marketplace metrics", 4,
                       missing2, 0, 0)

compute_verdict_tier4_marketplace(d, growth, missing) ==
    LET gmv == normalize_growth(d.gmv_growth_yoy)
        missing2 == missing \o Rec(gmv = None, "GMV growth")
                            \o Rec(d.take_rate_trend = None, "Take rate trend")
    IN
    IF d.take_rate_trend = Some("decreasing")
    THEN VerdictResult(d, "WATCH", "Tier 4 Marketplace: Take rate decreasing", 4,
                       missing2, 0, Half(1))
    ELSE IF gmv # None /\ Val(gmv) > Fx(MARKETPLACE_GMV_GROWTH_BUY)
            /\ d.take_rate_trend # Some("decreasing")
    THEN VerdictResult(d, "BUY", "Tier 4 Marketplace: Strong GMV growth", 4,
                       missing2, Half(2), 0)
    ELSE VerdictResult(d, "WATCH", "Tier 4 Marketplace: Insufficient marketplace metrics", 4,
                       missing2, 0, 0)

compute_verdict_tier4_transaction(d, growth, missing) ==
    LET gp_growth == normalize_growth(d.gross_profit_growth_yoy)
        tpv_growth == normalize_growth(d.tpv_growth_yoy)
        missing2 == missing \o Rec(gp_growth = None, "Gross profit growth")
                            \o Rec(tpv_growth = None, "TPV growth")
    IN
    IF gp_growth # None /\ tpv_growth # None
       /\ Val(gp_growth) < FloatAdd(Val(tpv_growth), -Fx(TRANSACTION_MARGIN_COMPRESSION_DELTA))
    THEN VerdictResult(d, "SELL", "Tier 4 Transaction: Margin compression", 4,
                       missing2, 0, Half(1))
    ELSE IF gp_growth # None /\ tpv_growth # None /\ Val(gp_growth) > Val(tpv_growth)
    THEN VerdictResult(d, "WATCH", "Tier 4 Transaction: GP outpacing TPV", 4,
                       missing2, Half(1), 0)
    ELSE VerdictResult(d, "WATCH", "Tier 4 Transaction: Insufficient transaction metrics", 4,
                       missing2, 0, 0)

tier4_exit_signals(d) ==
    (IF d.revenue_decel_3q THEN Half(1) ELSE 0)
    + (IF d.big_tech_announced THEN Half(1) ELSE 0)
    + (IF d.category_stage = "commoditizing" THEN Half(1) ELSE 0)
    + (IF d.big_tech_threat \in {"high", "very_high"} THEN 1 ELSE 0)

tier4_entry_signals(d, growth) ==
    (IF growth # None /\ Val(growth) >= Fx(GROWTH_ENTRY_THRESHOLD) THEN Half(1) ELSE 0)
    + (IF d.category_stage \in {"emerging", "early_growth"} THEN Half(1) ELSE 0)
    + (IF d.big_tech_threat \in {"low", "medium"} /\ d.big_tech_threat # "unknown"
       THEN 1 ELSE 0)
    + (IF d.switching_cost = "high" THEN 1 ELSE 0)

\* Mutant: a full entry total upgrades the no-retention verdict to BUY.
compute_verdict_tier4_insufficient_mut(d, growth, missing) ==
    LET exit_signals == tier4_exit_signals(d)
        entry_signals == tier4_entry_signals(d, growth)
        missing2 == missing \o << "NDR/NRR (no retention data available)" >>
    IN
    IF exit_signals >= Half(EXIT_SELL)
    THEN VerdictResult(d, "SELL", "Tier 4 (no retention data): Exit signals", 4,
                       missing2, 0, IntTrunc(exit_signals))
    ELSE IF entry_signals >= Half(3)
    THEN VerdictResult(d, "BUY", "Tier 4 (no retention data): Some positive signals", 4,
                       missing2, IntTrunc(entry_signals), IntTrunc(exit_signals))
    ELSE VerdictResult(d, "WATCH", "Tier 4 (no retention data): Insufficient data for conviction",
                       4, missing2, IntTrunc(entry_signals), IntTrunc(exit_signals))

compute_verdict_tier4_insufficient(d, growth, missing) ==
    LET exit_signals == tier4_exit_signals(d)
        entry_signals == tier4_entry_signals(d, growth)
        missing2 == missing \o << "NDR/NRR (no retention data available)" >>
    IN
    IF exit_signals >= Half(EXIT_SELL)
    THEN VerdictResult(d, "SELL", "Tier 4 (no retention data): Exit signals", 4,
                       missing2, 0, IntTrunc(exit_signals))
    ELSE IF entry_signals >= Half(2)
    THEN VerdictResult(d, "WATCH", "Tier 4 (no retention data): Some positive signals", 4,
                       missing2, IntTrunc(entry_signals), IntTrunc(exit_signals))
    ELSE IF exit_signals > 0
    THEN VerdictResult(d, "WATCH", "Tier 4 (no retention data): Mixed signals", 4,
                       missing2, IntTrunc(entry_signals), IntTrunc(exit_signals))
    ELSE VerdictResult(d, "WATCH", "Tier 4 (no retention data): Insufficient data for conviction",
                       4, missing2, IntTrunc(entry_signals), IntTrunc(exit_signals))

compute_verdict_tier4(d) ==
    LET growth == normalize_growth(d.revenue_growth_yoy) IN
    IF d.business_model = "consumer"
    THEN compute_verdict_tier4_consumer(d, growth, << >>)
    ELSE IF d.business_model = "marketplace"
    THEN compute_verdict_tier4_marketplace(d, growth, << >>)
    ELSE IF d.business_model = "transaction_based"
    THEN compute_verdict_tier4_transaction(d, growth, << >>)
    ELSE compute_verdict_tier4_insufficient(d, growth, << >>)

\* ------------------------------------------------------------------
\* Main entry point
\* ------------------------------------------------------------------
tier_result(d, tier) ==
    IF tier = 1 THEN compute_verdict_tier1(d)
    ELSE IF tier = 2 THEN compute_verdict_tier2(d)
    ELSE IF tier = 3 THEN compute_verdict_tier3(d)
    ELSE compute_verdict_tier4(d)

attach_confidence(r, d) ==
    LET score == calculate_confidence_score(d) IN
    [r EXCEPT !.confidence_score = score,
              !.confidence = score_to_confidence_level(score)]

attach_staleness(r, d, today) ==
    LET st == check_staleness(d, today) IN
    [r EXCEPT !.staleness_warning = st.is_stale,
              !.stale_fields = st.stale_fields,
              !.raised = st.exc]

compute_verdict(d, today) ==
    LET tier == determine_data_tier(d)
        r1 == tier_result(d, tier)
        r2 == attach_confidence(r1, d)
        r3 == attach_staleness(r2, d, today)
    IN [r3 EXCEPT !.research_recommendations = recommend_research(d),
                  !.last_updated = Some(today)]

\* ------------------------------------------------------------------
\* Call observation (test_enhanced_same_fundamental_as_batch compares the
\* results of two calls on equal arguments)
\* ------------------------------------------------------------------
MaxCalls == 3

CallRecord(d, today, r) == [arg |-> d, at |-> today, ret |-> r]

Observe(log, d, today, r) ==
    IF Len(log) < MaxCalls THEN Append(log, CallRecord(d, today, r)) ELSE log

\* ------------------------------------------------------------------
\* Database merge: build_company_data(ticker, info, yf_data)
\* ------------------------------------------------------------------
\* A database record: each key is absent (None) or carries a value.
NoInfo ==
    [ business_model |-> None,
      revenue_growth_yoy |-> None,
      ndr |-> None,
      ndr_tier |-> None,
      gross_retention |-> None,
      dbne |-> None,
      large_customer_ndr |-> None,
      implied_expansion |-> None,
      rpo_growth_yoy |-> None,
      arpu_growth_yoy |-> None,
      active_user_growth_yoy |-> None,
      gmv_growth_yoy |-> None,
      take_rate |-> None,
      take_rate_trend |-> None,
      tpv_growth_yoy |-> None,
      gross_profit_growth_yoy |-> None,
      arr_millions |-> None,
      customers_100k_plus |-> None,
      customer_growth_yoy |-> None,
      big_tech_threat |-> None,
      category_stage |-> None,
      switching_cost |-> None,
      big_tech_announced |-> None,
      revenue_decel_3q |-> None,
      data_updated |-> None ]

\* The live fetch: the one key of yf_data that reaches a modelled field.
NoYfData == [ revenue_growth_yoy |-> None ]

\* Python truthiness of an optional number: None and 0 are falsy.
Truthy(x) == x # None /\ Val(x) # 0

\* a or b
PyOr(a, b) == IF Truthy(a) THEN a ELSE b

\* dict.get(key, default) for a key with a default.
Get(x, default) == IF x = None THEN default ELSE Val(x)

build_company_data(ticker, inf, yf) ==
    [ ticker |-> ticker,
      business_model |-> Get(inf.business_model, "b2b_saas"),
      revenue_growth_yoy |-> PyOr(inf.revenue_growth_yoy, yf.revenue_growth_yoy),
      ndr |-> inf.ndr,
      ndr_tier |-> Get(inf.ndr_tier, 4),
      gross_retention |-> inf.gross_retention,
      dbne |-> inf.dbne,
      large_customer_ndr |-> inf.large_customer_ndr,
      implied_expansion |-> inf.implied_expansion,
      rpo_growth_yoy |-> inf.rpo_growth_yoy,
      arpu_growth_yoy |-> inf.arpu_growth_yoy,
      active_user_growth_yoy |-> inf.active_user_growth_yoy,
      gmv_growth_yoy |-> inf.gmv_growth_yoy,
      take_rate |-> inf.take_rate,
      take_rate_trend |-> inf.take_rate_trend,
      tpv_growth_yoy |-> inf.tpv_growth_yoy,
      gross_profit_growth_yoy |-> inf.gross_profit_growth_yoy,
      arr_millions |-> inf.arr_millions,
      customers_100k_plus |-> inf.customers_100k_plus,
      customer_growth_yoy |-> inf.customer_growth_yoy,
      big_tech_threat |-> Get(inf.big_tech_threat, "unknown"),
      category_stage |-> Get(inf.category_stage, "unknown"),
      switching_cost |-> Get(inf.switching_cost, "unknown"),
      big_tech_announced |-> Get(inf.big_tech_announced, FALSE),
      revenue_decel_3q |-> Get(inf.revenue_decel_3q, FALSE),
      data_updated |-> inf.data_updated ]

\* ------------------------------------------------------------------
\* Valuation overlay: compute_enhanced_verdict (src/plg_enhanced_analyzer.py)
\* ------------------------------------------------------------------
Verdicts == {"STRONG_BUY", "BUY", "WATCH", "SELL", "AVOID"}

ValuationTiers == {"cheap", "fair", "expensive", "very_expensive"}

TimingSignals ==
    {"monitor", "buy_now", "accumulate", "wait_for_pullback",
     "monitor_closely", "sell_rally", "avoid"}

ValuationSignal(tier, score, timing) ==
    [ valuation_tier |-> tier,
      opportunity_score |-> score,
      valuation_rationale |-> tier,
      timing_signal |-> timing ]

EnhancedVerdict(fundamental, valuation, final, confidence, score, timing, rationale) ==
    [ fundamental_verdict |-> fundamental,
      valuation_verdict |-> valuation,
      final_recommendation |-> final,
      confidence |-> confidence,
      opportunity_score |-> score,
      timing |-> timing,
      rationale |-> rationale ]

NoEnhanced == EnhancedVerdict("", "", << >>, "", 0, "", << >>)

\* f"{x:.0f}": a number in thousandths rounded to an integer, ties to even.
Round0(v) ==
    LET q == v \div Scale
        r == v % Scale
    IN IF 2 * r > Scale THEN q + 1
       ELSE IF 2 * r < Scale THEN q
       ELSE IF q % 2 = 0 THEN q ELSE q + 1

\* Mutant: the adjusted verdict is written over the fundamental one.
compute_enhanced_verdict_mut(fundamental_verdict, confidence, valuation_signal, ndr, revenue_growth) ==
    LET upgrade == /\ fundamental_verdict = "BUY"
                   /\ valuation_signal.valuation_tier = "cheap"
                   /\ valuation_signal.opportunity_score >= 80
        downgrade == /\ fundamental_verdict \in {"STRONG_BUY", "BUY"}
                     /\ valuation_signal.valuation_tier = "very_expensive"
        valuation_verdict == IF downgrade THEN "WATCH"
                             ELSE IF upgrade THEN "STRONG_BUY"
                             ELSE fundamental_verdict
    IN EnhancedVerdict(valuation_verdict, valuation_verdict, <<valuation_verdict, "">>,
                       confidence, valuation_signal.opportunity_score,
                       valuation_signal.timing_signal, << >>)

compute_enhanced_verdict(fundamental_verdict, confidence, valuation_signal, ndr, revenue_growth) ==
    LET upgrade == /\ fundamental_verdict = "BUY"
                   /\ valuation_signal.valuation_tier = "cheap"
                   /\ valuation_signal.opportunity_score >= 80
        downgrade == /\ fundamental_verdict \in {"STRONG_BUY", "BUY"}
                     /\ valuation_signal.valuation_tier = "very_expensive"
        value_trap == /\ fundamental_verdict \in {"SELL", "AVOID"}
                      /\ valuation_signal.valuation_tier = "cheap"
        valuation_verdict == IF downgrade THEN "WATCH"
                             ELSE IF upgrade THEN "STRONG_BUY"
                             ELSE fundamental_verdict
        timing == IF value_trap THEN "value_trap"
                  ELSE IF downgrade THEN "wait_for_pullback"
                  ELSE IF upgrade THEN "buy_now"
                  ELSE valuation_signal.timing_signal
        final_recommendation ==
            IF timing = "buy_now" THEN <<valuation_verdict, " NOW">>
            ELSE IF timing = "accumulate" THEN <<valuation_verdict, " (Accumulate)">>
            ELSE IF timing = "wait_for_pullback" THEN <<fundamental_verdict, " (Wait for Pullback)">>
            ELSE IF timing = "monitor_closely" THEN <<"WATCH", " (Monitor for Entry)">>
            ELSE IF timing = "sell_rally" THEN <<"SELL", " (Exit on Rally)">>
            ELSE IF timing = "value_trap" THEN <<fundamental_verdict, " (Value Trap)">>
            ELSE <<valuation_verdict, "">>
        growth_pct == normalize_growth(revenue_growth)
        growth_str == IF Truthy(growth_pct) THEN Some(Round0(Val(growth_pct))) ELSE None
        ndr_str == IF Truthy(ndr) THEN ndr ELSE None
        rationale == <<ndr_str, growth_str, valuation_signal.valuation_rationale>>
    IN EnhancedVerdict(fundamental_verdict, valuation_verdict, final_recommendation,
                       confidence, valuation_signal.opportunity_score, timing, rationale)

\* The fields of a PriceData that analyze_valuation reads; ratios and
\* percentages in thousandths.
PriceData(ps, off_high, rsi, ret3m) ==
    [ price_to_sales |-> ps,
      pct_off_high |-> off_high,
      rsi_14 |-> rsi,
      return_3m |-> ret3m ]

\* No price bundle was analyzed yet.
NoValuation ==
    /\ price_data = PriceData(None, None, None, None)
    /\ val_signal = ValuationSignal("", 0, "")

analyze_valuation(fundamental_verdict, ndr, revenue_growth, pd, category_stage) ==
    IF ~Truthy(pd.price_to_sales) \/ ~Truthy(revenue_growth)
    THEN ValuationSignal("unknown", 50, "monitor")
    ELSE
    LET ps_ratio == Val(pd.price_to_sales)
        normalized == normalize_growth(revenue_growth)
        growth_pct == IF Truthy(normalized) THEN Val(normalized) ELSE 0
        strong == fundamental_verdict \in {"STRONG_BUY", "BUY"}
        valuation_tier ==
            IF strong
            THEN IF Truthy(ndr) /\ Val(ndr) >= Fx(120) /\ growth_pct >= Fx(30)
                 THEN IF ps_ratio > Fx(25) THEN "very_expensive"
                      ELSE IF ps_ratio > Fx(15) THEN "expensive"
                      ELSE IF ps_ratio > Fx(10) THEN "fair"
                      ELSE "cheap"
                 ELSE IF Truthy(ndr) /\ Val(ndr) >= Fx(110) /\ growth_pct >= Fx(20)
                 THEN IF ps_ratio > Fx(20) THEN "very_expensive"
                      ELSE IF ps_ratio > Fx(15) THEN "expensive"
                      ELSE IF ps_ratio > Fx(10) THEN "fair"
                      ELSE "cheap"
                 ELSE IF ps_ratio > Fx(15) THEN "expensive"
                      ELSE IF ps_ratio > Fx(10) THEN "fair"
                      ELSE "cheap"
            ELSE IF ps_ratio > Fx(12) THEN "very_expensive"
                 ELSE IF ps_ratio > Fx(8) THEN "expensive"
                 ELSE IF ps_ratio > Fx(5) THEN "fair"
                 ELSE "cheap"
        fundamental_points ==
            CASE fundamental_verdict = "STRONG_BUY" -> 20
              [] fundamental_verdict = "BUY" -> 15
              [] fundamental_verdict = "WATCH" -> 5
              [] fundamental_verdict = "SELL" -> -15
              [] fundamental_verdict = "AVOID" -> -20
              [] OTHER -> 0
        valuation_points ==
            CASE valuation_tier = "cheap" -> 15
              [] valuation_tier = "fair" -> 5
              [] valuation_tier = "expensive" -> -10
              [] valuation_tier = "very_expensive" -> -20
        momentum_points ==
            IF pd.pct_off_high = None THEN 0
            ELSE IF Val(pd.pct_off_high) < -Fx(30) THEN (IF strong THEN 15 ELSE -5)
            ELSE IF Val(pd.pct_off_high) < -Fx(15) THEN (IF strong THEN 10 ELSE -3)
            ELSE IF Val(pd.pct_off_high) > -Fx(5) THEN -10
            ELSE 0
        technical_points ==
            IF pd.rsi_14 = None THEN 0
            ELSE IF Val(pd.rsi_14) < Fx(30) THEN (IF strong THEN 10 ELSE 0)
            ELSE IF Val(pd.rsi_14) > Fx(70) THEN -10
            ELSE 0
        uncapped == 50 + fundamental_points + valuation_points + momentum_points
                       + technical_points
        opportunity_score ==
            IF uncapped > 100 THEN 100 ELSE IF uncapped < 0 THEN 0 ELSE uncapped
        timing_signal ==
            IF strong
            THEN IF valuation_tier \in {"cheap", "fair"}
                 THEN IF Truthy(pd.pct_off_high) /\ Val(pd.pct_off_high) < -Fx(20)
                      THEN "buy_now"
                      ELSE IF Truthy(pd.rsi_14) /\ Val(pd.rsi_14) < Fx(40)
                      THEN "buy_now"
                      ELSE "accumulate"
                 ELSE "wait_for_pullback"
            ELSE IF fundamental_verdict = "WATCH"
            THEN IF /\ valuation_tier = "cheap"
                    /\ Truthy(pd.pct_off_high)
                    /\ Val(pd.pct_off_high) < -Fx(25)
                 THEN "monitor_closely"
                 ELSE "monitor"
            ELSE IF Truthy(pd.return_3m) /\ Val(pd.return_3m) > Fx(10)
                 THEN "sell_rally"
                 ELSE "avoid"
    IN ValuationSignal(valuation_tier, opportunity_score, timing_signal)

\* ------------------------------------------------------------------
\* Batch loops: batch_analyze, the enhanced analyzer's main loop and the
\* dashboard's compute_all_verdicts
\* ------------------------------------------------------------------
\* The tickers of the company database.
COMPANY_DATABASE == {"DDOG", "SNOW"}

\* Tickers a caller may pass: the known ones and one not in the database.
TickerNames == COMPANY_DATABASE \cup {"XXXX"}

\* One entry of a result list.  The verdict of a successful analysis is kept
\* abstractly; the dashboard's placeholder for a failed one is 'N/A'.
ResultEntry(ticker, verdict) == [ticker |-> ticker, verdict |-> verdict]

\* ------------------------------------------------------------------
\* Bounded input domains
\* ------------------------------------------------------------------
MaxGrowthStep == 7

MaxNdrStep == 5

Today == 400

\* Growth rates -5% .. 5*MaxGrowthStep %, each in percent form (25) and
\* in decimal form (0.25).
GrowthPcts == {5 * k : k \in -1..MaxGrowthStep}

GrowthVals == {None} \cup {Some(Fx(p)) : p \in GrowthPcts} \cup {Some(Dec(p)) : p \in GrowthPcts}

\* NDR 100% .. 100 + 5*MaxNdrStep %, in percent form (115) and decimal form (1.15).
NdrPcts == {100 + 5 * k : k \in 0..MaxNdrStep}

NdrVals == {Some(Fx(p)) : p \in NdrPcts} \cup {Some(Dec(p)) : p \in NdrPcts}

DateVals ==
    {None, Some(EmptyStr), Some(GarbageStr)}
    \cup {Some(DateStr(Today - a)) :
            a \in {0, STALENESS_FINANCIAL, STALENESS_FINANCIAL + 1,
                   STALENESS_COMPETITIVE, STALENESS_COMPETITIVE + 1}}

\* Tier 1 inputs: direct NDR, every growth, assessment and exit flag.
InputsT1(base) ==
    { [base EXCEPT !.ndr = n, !.ndr_tier = 1, !.revenue_growth_yoy = g,
                          !.category_stage = c, !.big_tech_threat = t,
                          !.switching_cost = s, !.big_tech_announced = a,
                          !.revenue_decel_3q = q] :
        n \in NdrVals, g \in GrowthVals, c \in CategoryStages, t \in ThreatLevels,
        s \in SwitchingCosts, a \in BOOLEAN, q \in BOOLEAN }

\* Retention metrics 90% .. 90 + 10*MaxRetStep % (DBNE, tier-2 NDR) and
\* 95% .. 95 + 10*MaxRetStep % (large-customer NDR), gross retention around
\* its thresholds; each in percent form and in decimal form.
MaxRetStep == 3

DbnePcts == {90 + 10 * k : k \in 0..MaxRetStep}

LcNdrPcts == {95 + 10 * k : k \in 0..MaxRetStep}

GrPcts == {GR_ACCEPTABLE - 1, GR_ACCEPTABLE, GR_HEALTHY, GR_STRONG}

BothForms(pcts) == {Some(Fx(p)) : p \in pcts} \cup {Some(Dec(p)) : p \in pcts}

DbneVals == {None} \cup BothForms(DbnePcts)

GrVals == {None} \cup BothForms(GrPcts)

LcNdrVals == {None} \cup BothForms(LcNdrPcts)

Ndr2Vals == {None} \cup BothForms(DbnePcts)

\* A few growth values: absent, below partial credit, partial, entry (both forms).
GrowthFew == {None, Some(Fx(15)), Some(Fx(20)), Some(Fx(25)), Some(Dec(25))}

\* Whether a record is routed to Tier 2 by a variant metric or a tier-2 NDR.
HasTier2Metric(d) ==
    \/ d.ndr # None /\ d.ndr_tier = 2
    \/ d.dbne # None
    \/ d.gross_retention # None
    \/ d.large_customer_ndr # None

\* Tier 2 inputs (a): a weak / strong DBNE and gross retention, a healthy
\* large-customer NDR and tier-2 NDR, against every growth, assessment and flag.
InputsT2a(base) ==
    { d \in
      { [base EXCEPT !.dbne = b, !.gross_retention = r, !.large_customer_ndr = l,
                            !.ndr = n, !.ndr_tier = 2, !.revenue_growth_yoy = g,
                            !.category_stage = c, !.big_tech_threat = t,
                            !.big_tech_announced = a, !.revenue_decel_3q = q] :
          b \in {None, Some(Fx(90)), Some(Fx(120))},
          r \in {None, Some(Dec(89)), Some(Fx(97))},
          l \in {None, Some(Fx(115))},
          n \in {None, Some(Fx(110))},
          g \in GrowthVals, c \in CategoryStages, t \in ThreatLevels,
          a \in BOOLEAN, q \in BOOLEAN } :
      HasTier2Metric(d) }

\* Tier 2 inputs (b): every combination of the four retention metrics,
\* against a few growth values and exit flags.
InputsT2b(base) ==
    { d \in
      { [base EXCEPT !.dbne = b, !.gross_retention = r, !.large_customer_ndr = l,
                            !.ndr = n, !.ndr_tier = 2, !.revenue_growth_yoy = g,
                            !.revenue_decel_3q = q, !.big_tech_announced = q] :
          b \in DbneVals, r \in GrVals, l \in LcNdrVals, n \in Ndr2Vals,
          g \in GrowthFew, q \in BOOLEAN } :
      HasTier2Metric(d) }

\* Exit-dominance inputs: Tier 1 and Tier 2 records, weak to elite retention,
\* absent to elite growth, against every assessment and exit flag.
InputsExit1(base) ==
    { [base EXCEPT !.ndr = n, !.ndr_tier = 1, !.revenue_growth_yoy = g,
                          !.category_stage = c, !.big_tech_threat = t,
                          !.switching_cost = s, !.big_tech_announced = a,
                          !.revenue_decel_3q = q] :
        n \in {Some(Fx(105)), Some(Fx(120)), Some(Fx(125))},
        g \in {None, Some(Fx(30)), Some(Dec(35))},
        c \in CategoryStages, t \in ThreatLevels, s \in {"unknown", "high"},
        a \in BOOLEAN, q \in BOOLEAN }

InputsExit2(base) ==
    { [base EXCEPT !.dbne = b, !.ndr = n, !.ndr_tier = 2, !.revenue_growth_yoy = g,
                          !.category_stage = c, !.big_tech_threat = t,
                          !.big_tech_announced = a, !.revenue_decel_3q = q] :
        b \in {Some(Fx(90)), Some(Fx(120))},
        n \in {None, Some(Fx(120))},
        g \in {None, Some(Fx(30)), Some(Dec(35))},
        c \in CategoryStages, t \in ThreatLevels, a \in BOOLEAN, q \in BOOLEAN }

\* Tier 3 inputs: implied expansion and RPO growth (at least one present)
\* against every growth value and exit flag.
InputsT3(base) ==
    { d \in
      { [base EXCEPT !.implied_expansion = ie, !.rpo_growth_yoy = rpo,
                            !.revenue_growth_yoy = g, !.ndr_tier = nt,
                            !.big_tech_announced = a, !.revenue_decel_3q = q] :
          ie \in GrowthVals, rpo \in GrowthVals, g \in GrowthVals, nt \in {3, 4},
          a \in BOOLEAN, q \in BOOLEAN } :
      d.implied_expansion # None \/ d.rpo_growth_yoy # None }

\* Tier 4 default-branch inputs: no retention signal routed (NDR absent, or
\* present with ndr_tier 3 / 4), a business model without its own branch.
InputsT4(base) ==
    { [base EXCEPT !.business_model = bm, !.ndr = n[1], !.ndr_tier = n[2],
                          !.revenue_growth_yoy = g, !.category_stage = c,
                          !.big_tech_threat = t, !.switching_cost = s,
                          !.big_tech_announced = a, !.revenue_decel_3q = q] :
        bm \in {"b2b_saas", "hybrid"},
        n \in {<<None, 4>>, <<Some(Fx(115)), 3>>, <<Some(Fx(115)), 4>>},
        g \in GrowthFew, c \in CategoryStages, t \in ThreatLevels, s \in SwitchingCosts,
        a \in BOOLEAN, q \in BOOLEAN }

\* Present-or-absent choices for a field whose value is only tested for presence.
Opt(v) == {None, Some(v)}

\* Routing inputs: every presence pattern of the retention fields, every
\* ndr_tier and business model, with other fields varied alongside.
InputsRoute(base) ==
    { [base EXCEPT !.ndr = n, !.ndr_tier = nt, !.dbne = b, !.gross_retention = r,
                          !.large_customer_ndr = l, !.implied_expansion = ie,
                          !.rpo_growth_yoy = rpo, !.business_model = bm,
                          !.revenue_growth_yoy = g, !.category_stage = c,
                          !.revenue_decel_3q = q] :
        n \in {None, Some(Fx(95)), Some(Fx(115))}, nt \in NdrTiers,
        b \in Opt(Fx(115)), r \in Opt(Dec(95)), l \in Opt(Fx(120)),
        ie \in {None, Some(Fx(12)), Some(Fx(-5))}, rpo \in Opt(Fx(30)),
        bm \in BusinessModels, g \in Opt(Dec(30)),
        c \in {"unknown", "commoditizing"}, q \in BOOLEAN }

\* Confidence inputs: every presence pattern of the scored fields, every
\* ndr_tier, assessed and unassessed competitive signals.
InputsConf(base) ==
    { [base EXCEPT !.ndr = n, !.ndr_tier = nt, !.dbne = b, !.gross_retention = r,
                          !.large_customer_ndr = l, !.implied_expansion = ie,
                          !.revenue_growth_yoy = g, !.revenue_decel_3q = q,
                          !.arr_millions = arr, !.big_tech_threat = t,
                          !.category_stage = c, !.customers_100k_plus = cu,
                          !.customer_growth_yoy = cg] :
        n \in Opt(Fx(120)), nt \in NdrTiers, b \in Opt(Fx(115)), r \in Opt(Dec(95)),
        l \in Opt(Fx(120)), ie \in Opt(Fx(12)), g \in Opt(Dec(30)), q \in BOOLEAN,
        arr \in Opt(Fx(2000)), t \in {"unknown", "low"}, c \in {"unknown", "early_growth"},
        cu \in Opt(Fx(500)), cg \in Opt(Dec(15)) }


\* Totality inputs: (a) every presence pattern of the retention fields and
\* growth, every ndr_tier, business model and kind of data_updated; (b) every
\* presence pattern of the Tier 4 metrics under every business model and
\* take-rate trend; (c) every combination of the enumerated assessments and
\* flags under every business model, for a record of each routed tier.
InputsTotalA(base) ==
    { [base EXCEPT !.ndr = n, !.ndr_tier = nt, !.dbne = b, !.gross_retention = r,
                   !.large_customer_ndr = l, !.implied_expansion = ie,
                   !.rpo_growth_yoy = rpo, !.revenue_growth_yoy = g,
                   !.business_model = bm, !.data_updated = du] :
        n \in Opt(Fx(115)), nt \in NdrTiers, b \in Opt(Fx(95)), r \in Opt(Dec(97)),
        l \in Opt(Fx(120)), ie \in {None, Some(Fx(12)), Some(Fx(-5))},
        rpo \in Opt(Fx(30)), g \in Opt(Dec(30)), bm \in BusinessModels,
        du \in {None, Some(EmptyStr), Some(GarbageStr), Some(DateStr(Today)),
                Some(DateStr(Today - STALENESS_COMPETITIVE - 1))} }

InputsTotalB(base) ==
    { [base EXCEPT !.business_model = bm, !.revenue_growth_yoy = g,
                   !.arpu_growth_yoy = ar, !.active_user_growth_yoy = us,
                   !.gmv_growth_yoy = gmv, !.take_rate = tr, !.take_rate_trend = trend,
                   !.tpv_growth_yoy = tpv, !.gross_profit_growth_yoy = gp] :
        bm \in BusinessModels, g \in Opt(Fx(35)),
        ar \in {None, Some(Fx(-5)), Some(Fx(25))}, us \in Opt(Fx(20)),
        gmv \in Opt(Fx(30)), tr \in Opt(Fx(12)), trend \in TakeRateTrends,
        tpv \in Opt(Fx(30)), gp \in {None, Some(Fx(5)), Some(Fx(40))} }

InputsTotalC(base) ==
    { [base EXCEPT !.business_model = bm, !.big_tech_threat = t, !.category_stage = c,
                   !.switching_cost = s, !.big_tech_announced = a, !.revenue_decel_3q = q,
                   !.ndr = p[1], !.ndr_tier = p[2], !.dbne = p[3],
                   !.implied_expansion = p[4],
                   !.arr_millions = k[1], !.customers_100k_plus = k[2],
                   !.customer_growth_yoy = k[3]] :
        bm \in BusinessModels, t \in ThreatLevels, c \in CategoryStages,
        s \in SwitchingCosts, a \in BOOLEAN, q \in BOOLEAN,
        p \in { <<Some(Fx(115)), 1, None, None>>, <<None, 4, Some(Fx(115)), None>>,
                <<None, 3, None, Some(Fx(12))>>, <<None, 4, None, None>> },
        k \in { <<None, None, None>>, <<Some(Fx(2000)), Some(Fx(500)), Some(Dec(15))>> } }

\* ------------------------------------------------------------------
\* State machine: a caller holds one CompanyData and calls compute_verdict
\* ------------------------------------------------------------------
\* The parts of the state a scenario does not use, at their initial values.
NoBuild == info = NoInfo /\ yf_data = NoYfData

NoBatch == tickers = << >> /\ position = 1 /\ results = << >> /\ failed = {}

InitWith(inputs) ==
    /\ data \in inputs
    /\ result = NoResult
    /\ pc = "ready"
    /\ now = Today
    /\ calls = << >>
    /\ NoBuild
    /\ NoBatch
    /\ enhanced = NoEnhanced
    /\ NoValuation

\* Mutant: the missing-signals list is one list shared by all calls, so a
\* call's result carries what earlier calls appended.
ComputeVerdict_shared ==
    /\ pc = "ready"
    /\ result' = [compute_verdict(data, now) EXCEPT
                    !.missing_signals = result.missing_signals \o @]
    /\ pc' = "done"
    /\ calls' = Observe(calls, data, now, result')
    /\ UNCHANGED <<data, now, info, yf_data, tickers, position, results, failed, enhanced,
                   price_data, val_signal>>

\* One call of compute_verdict(data) at wall-clock time now.  The argument
\* is only read.  calls observes the first MaxCalls calls.
ComputeVerdict ==
    /\ pc = "ready"
    /\ result' = compute_verdict(data, now)
    /\ pc' = "done"
    /\ calls' = Observe(calls, data, now, result')
    /\ UNCHANGED <<data, now, info, yf_data, tickers, position, results, failed, enhanced,
                   price_data, val_signal>>

Next == ComputeVerdict

InitT1 == InitWith(InputsT1(CompanyData))

SpecT1 == InitT1 /\ [][Next]_vars

InitT2 ==
    \/ InitWith(InputsT2a(CompanyData))
    \/ InitWith(InputsT2b(CompanyData))

SpecT2 == InitT2 /\ [][Next]_vars

InitExit ==
    \/ InitWith(InputsExit1(CompanyData))
    \/ InitWith(InputsExit2(CompanyData))

SpecExit == InitExit /\ [][Next]_vars

InitT3 == InitWith(InputsT3(CompanyData))

SpecT3 == InitT3 /\ [][Next]_vars

InitT4 == InitWith(InputsT4(CompanyData))

SpecT4 == InitT4 /\ [][Next]_vars

InitRoute == InitWith(InputsRoute(CompanyData))

SpecRoute == InitRoute /\ [][Next]_vars

InitConf == InitWith(InputsConf(CompanyData))

SpecConf == InitConf /\ [][Next]_vars

InitTotal ==
    \/ InitWith(InputsTotalA(CompanyData))
    \/ InitWith(InputsTotalB(CompanyData))
    \/ InitWith(InputsTotalC(CompanyData))

SpecTotal == InitTotal /\ [][Next]_vars

\* Every verdict of every tier: the totality inputs together with the
\* Tier 1 inputs, which reach STRONG_BUY and AVOID.
InitVerdicts == InitTotal \/ InitT1

SpecVerdicts == InitVerdicts /\ [][Next]_vars

\* ------------------------------------------------------------------
\* Completeness scenario: records that share a presence pattern and differ
\* in numeric values, assessed levels and exit flags
\* ------------------------------------------------------------------
\* Absent, or one of two values (zero included where the field allows it).
Opt2(v, w) == {None, Some(v), Some(w)}

InputsCompleteness(base) ==
    { [base EXCEPT !.ndr = n, !.ndr_tier = nt, !.dbne = b, !.implied_expansion = ie,
                   !.revenue_growth_yoy = g, !.revenue_decel_3q = q,
                   !.big_tech_announced = q, !.arr_millions = arr,
                   !.big_tech_threat = t, !.category_stage = c,
                   !.customers_100k_plus = cu, !.customer_growth_yoy = cu] :
        n \in Opt2(Fx(95), Dec(125)), nt \in NdrTiers, b \in Opt2(Fx(90), Fx(120)),
        ie \in Opt2(Fx(-5), Fx(12)), g \in Opt2(0, Dec(30)), q \in BOOLEAN,
        arr \in Opt2(0, Fx(2000)), t \in {"unknown", "low", "very_high"},
        c \in {"unknown", "early_growth", "commoditizing"}, cu \in Opt2(0, Fx(500)) }

InitCompleteness == InitWith(InputsCompleteness(CompanyData))

SpecCompleteness == InitCompleteness /\ [][Next]_vars

\* ------------------------------------------------------------------
\* Clock scenario: one record, never mutated, evaluated day after day
\* ------------------------------------------------------------------
\* Days the clock runs past Today.
MaxDays == 85

\* Ages at Today of the valid dates: young enough to start fresh or at a
\* threshold, old enough to pass STALENESS_COMPETITIVE within MaxDays.
StartAges ==
    {STALENESS_COMPETITIVE + 1 - MaxDays, STALENESS_FINANCIAL,
     STALENESS_FINANCIAL + 1, STALENESS_COMPETITIVE}

InputsClock(base) ==
    { [base EXCEPT !.data_updated = du, !.ndr = n, !.ndr_tier = 1,
                   !.category_stage = c] :
        du \in {None, Some(EmptyStr), Some(GarbageStr)}
               \cup {Some(DateStr(Today - a)) : a \in StartAges},
        n \in Opt(Fx(115)), c \in {"unknown", "mature"} }

\* A day passes between two evaluations (datetime.now() is read by every
\* call of check_staleness).
Tick ==
    /\ pc = "done"
    /\ now < Today + MaxDays
    /\ now' = now + 1
    /\ pc' = "ready"
    /\ UNCHANGED <<data, result, calls, info, yf_data, tickers, position, results,
                   failed, enhanced,
                   price_data, val_signal>>

NextClock == ComputeVerdict \/ Tick

InitClock == InitWith(InputsClock(CompanyData))

\* Time passes and the caller keeps evaluating.
SpecClock ==
    InitClock /\ [][NextClock]_vars /\ WF_vars(Tick) /\ WF_vars(ComputeVerdict)

\* ------------------------------------------------------------------
\* Call-sequence scenario: a caller makes several calls, on any records in
\* any order, the same day or a day later
\* ------------------------------------------------------------------
InputsCalls(base) ==
    { [base EXCEPT !.ndr = n, !.ndr_tier = 1, !.revenue_growth_yoy = g,
                   !.data_updated = du] :
        n \in Opt(Fx(120)), g \in Opt(Fx(30)),
        du \in {None, Some(DateStr(Today - STALENESS_FINANCIAL))} }

NextCall ==
    /\ pc = "done"
    /\ Len(calls) < MaxCalls
    /\ data' \in InputsCalls(CompanyData)
    /\ now' \in {now, now + 1}
    /\ pc' = "ready"
    /\ UNCHANGED <<result, calls, info, yf_data, tickers, position, results,
                   failed, enhanced,
                   price_data, val_signal>>

NextCalls == ComputeVerdict \/ NextCall

InitCalls == InitWith(InputsCalls(CompanyData))

SpecCalls == InitCalls /\ [][NextCalls]_vars

\* ------------------------------------------------------------------
\* Normalization scenario: growth fields in fraction form and percent form
\* ------------------------------------------------------------------
\* Growth rates around 28% (TPV) and 18% (gross profit), each in both forms.
TpvPcts == {27, 28, 29}

GpPcts == {17, 18, 19}

InputsNorm(base) ==
    { [base EXCEPT !.business_model = "transaction_based", !.tpv_growth_yoy = tpv,
                   !.gross_profit_growth_yoy = gp, !.revenue_growth_yoy = g] :
        tpv \in {None} \cup BothForms(TpvPcts), gp \in {None} \cup BothForms(GpPcts),
        g \in {None, Some(0), Some(Dec(50)), Some(Fx(1)), Some(Fx(-1)), Some(Fx(100))}
              \cup BothForms({7, 25}) }

InitNorm == InitWith(InputsNorm(CompanyData))

SpecNorm == InitNorm /\ [][Next]_vars

\* ------------------------------------------------------------------
\* Merge scenario: build_company_data, then compute_verdict
\* ------------------------------------------------------------------
InfoInputs ==
    { [NoInfo EXCEPT !.revenue_growth_yoy = g, !.ndr = n, !.ndr_tier = nt,
                     !.category_stage = c, !.revenue_decel_3q = q] :
        g \in {None, Some(0), Some(Fx(-5)), Some(Dec(30)), Some(Fx(25))},
        n \in Opt(Fx(120)), nt \in Opt(1), c \in Opt("early_growth"),
        q \in {None, Some(TRUE), Some(FALSE)} }

YfInputs ==
    { [NoYfData EXCEPT !.revenue_growth_yoy = g] : g \in {None, Some(0), Some(Dec(20))} }

InitBuild ==
    /\ info \in InfoInputs
    /\ yf_data \in YfInputs
    /\ data = CompanyData
    /\ result = NoResult
    /\ pc = "build"
    /\ now = Today
    /\ calls = << >>
    /\ NoBatch
    /\ enhanced = NoEnhanced
    /\ NoValuation

BuildCompanyData ==
    /\ pc = "build"
    /\ data' = build_company_data("TEST", info, yf_data)
    /\ pc' = "ready"
    /\ UNCHANGED <<result, now, calls, info, yf_data, tickers, position, results,
                   failed, enhanced,
                   price_data, val_signal>>

NextBuild == BuildCompanyData \/ ComputeVerdict

SpecBuild == InitBuild /\ [][NextBuild]_vars

\* ------------------------------------------------------------------
\* Batch scenario: one loop over a ticker list
\* ------------------------------------------------------------------
MaxTickers == 3

TickerLists == UNION { [1..n -> TickerNames] : n \in 0..MaxTickers }

\* The keys of a database, in order: known tickers, each once.
DatabaseKeys ==
    { l \in TickerLists :
        /\ \A i \in 1..Len(l) : l[i] \in COMPANY_DATABASE
        /\ \A i, j \in 1..Len(l) : l[i] = l[j] => i = j }

InitBatch ==
    /\ \/ pc \in {"batch", "enhanced_main"} /\ tickers \in TickerLists
       \/ pc = "dashboard" /\ tickers \in DatabaseKeys
    /\ position = 1
    /\ results = << >>
    /\ failed = {}
    /\ data = CompanyData
    /\ result = NoResult
    /\ now = Today
    /\ calls = << >>
    /\ NoBuild
    /\ enhanced = NoEnhanced
    /\ NoValuation

\* Mutant: analyze_company is called outside any try / except.
BatchAnalyzeStep_mut ==
    /\ pc = "batch"
    /\ position <= Len(tickers)
    /\ position' = position + 1
    /\ \/ /\ tickers[position] \notin COMPANY_DATABASE
          /\ UNCHANGED <<pc, results, failed>>
       \/ /\ tickers[position] \in COMPANY_DATABASE
          /\ results' = Append(results, ResultEntry(tickers[position], "computed"))
          /\ UNCHANGED <<pc, failed>>
       \/ /\ tickers[position] \in COMPANY_DATABASE
          /\ failed' = failed \cup {position}
          /\ pc' = "aborted"
          /\ UNCHANGED results
    /\ UNCHANGED <<data, result, now, calls, info, yf_data, tickers, enhanced,
                   price_data, val_signal>>

\* One iteration of batch_analyze's loop: an unknown ticker is skipped; a
\* known one is analyzed, which appends an entry or raises and is caught.
BatchAnalyzeStep ==
    /\ pc = "batch"
    /\ position <= Len(tickers)
    /\ position' = position + 1
    /\ \/ /\ tickers[position] \notin COMPANY_DATABASE
          /\ UNCHANGED <<results, failed>>
       \/ /\ tickers[position] \in COMPANY_DATABASE
          /\ results' = Append(results, ResultEntry(tickers[position], "computed"))
          /\ UNCHANGED failed
       \/ /\ tickers[position] \in COMPANY_DATABASE
          /\ failed' = failed \cup {position}
          /\ UNCHANGED results
    /\ UNCHANGED <<data, result, pc, now, calls, info, yf_data, tickers, enhanced,
                   price_data, val_signal>>

\* One iteration of the enhanced analyzer's main loop.  analyze_company_enhanced
\* passes four positional arguments to build_company_data, which takes three:
\* every call raises TypeError (or an earlier fetch error) and is caught.
EnhancedMainStep ==
    /\ pc = "enhanced_main"
    /\ position <= Len(tickers)
    /\ position' = position + 1
    /\ \/ /\ tickers[position] \notin COMPANY_DATABASE
          /\ UNCHANGED failed
       \/ /\ tickers[position] \in COMPANY_DATABASE
          /\ failed' = failed \cup {position}
    /\ UNCHANGED <<data, result, pc, now, calls, info, yf_data, tickers, results, enhanced,
                   price_data, val_signal>>

\* One iteration of compute_all_verdicts: an entry for every database key, a
\* placeholder when build_company_data / compute_verdict raises.
ComputeAllVerdictsStep ==
    /\ pc = "dashboard"
    /\ position <= Len(tickers)
    /\ position' = position + 1
    /\ \/ /\ results' = Append(results, ResultEntry(tickers[position], "computed"))
          /\ UNCHANGED failed
       \/ /\ results' = Append(results, ResultEntry(tickers[position], "N/A"))
          /\ failed' = failed \cup {position}
    /\ UNCHANGED <<data, result, pc, now, calls, info, yf_data, tickers, enhanced,
                   price_data, val_signal>>

\* The caller's position once the loop of that kind has returned.
Returned(loop) ==
    IF loop = "batch" THEN "batch_returned"
    ELSE IF loop = "enhanced_main" THEN "enhanced_main_returned"
    ELSE "dashboard_returned"

\* The loop is exhausted and the result list is returned.
BatchReturn ==
    /\ pc \in {"batch", "enhanced_main", "dashboard"}
    /\ position > Len(tickers)
    /\ pc' = Returned(pc)
    /\ UNCHANGED <<data, result, now, calls, info, yf_data, tickers, position, results,
                   failed, enhanced,
                   price_data, val_signal>>

NextBatch ==
    \/ BatchAnalyzeStep
    \/ EnhancedMainStep
    \/ ComputeAllVerdictsStep
    \/ BatchReturn

\* The loop is sequential code: it keeps running until it returns.
SpecBatch == InitBatch /\ [][NextBatch]_vars /\ WF_vars(NextBatch)

\* ------------------------------------------------------------------
\* Overlay scenario: compute_verdict, then compute_enhanced_verdict on the
\* verdict and confidence it returned (the dashboard's deep dive)
\* ------------------------------------------------------------------
OpportunityScores == {50, 80}

ValuationSignals ==
    { ValuationSignal(tier, score, timing) :
        tier \in ValuationTiers \cup {"unknown"}, score \in OpportunityScores,
        timing \in TimingSignals }

InputsEnhanced(base) ==
    { [base EXCEPT !.ndr = n, !.ndr_tier = 1, !.revenue_growth_yoy = g,
                   !.category_stage = c, !.big_tech_threat = t,
                   !.switching_cost = s, !.big_tech_announced = a] :
        n \in {Some(Fx(105)), Some(Fx(115)), Some(Fx(125))},
        g \in {None, Some(Fx(20)), Some(Fx(30)), Some(Dec(35))},
        c \in {"unknown", "early_growth", "commoditizing"}, t \in {"unknown", "low"},
        s \in {"unknown", "high"}, a \in BOOLEAN }

ComputeEnhancedVerdict ==
    /\ pc = "done"
    /\ \E valuation_signal \in ValuationSignals :
          enhanced' = compute_enhanced_verdict(result.verdict, result.confidence,
                                               valuation_signal, data.ndr,
                                               data.revenue_growth_yoy)
    /\ pc' = "enhanced"
    /\ UNCHANGED <<data, result, now, calls, info, yf_data, tickers, position, results,
                   failed, price_data, val_signal>>

NextEnhanced == ComputeVerdict \/ ComputeEnhancedVerdict

InitEnhanced == InitWith(InputsEnhanced(CompanyData))

SpecEnhanced == InitEnhanced /\ [][NextEnhanced]_vars

\* ------------------------------------------------------------------
\* Valuation scenario: compute_verdict, then analyze_valuation on the
\* verdict with the company's NDR, growth and a price bundle
\* ------------------------------------------------------------------
\* Price bundles: each field absent, zero, and on both sides of every
\* threshold analyze_valuation compares it with.
PriceBundles ==
    { PriceData(ps, off, rsi, ret) :
        ps \in {None} \cup {Some(Fx(x)) : x \in {0, 4, 7, 11, 14, 18, 22, 26}},
        off \in {None} \cup {Some(Fx(x)) : x \in {0, -10, -18, -22, -27, -35}},
        rsi \in {None} \cup {Some(Fx(x)) : x \in {25, 35, 50, 75}},
        ret \in {None, Some(Fx(15))} }

InputsValuation(base) ==
    { [base EXCEPT !.ndr = n, !.ndr_tier = 1, !.revenue_growth_yoy = g,
                   !.category_stage = c, !.big_tech_threat = t,
                   !.big_tech_announced = a] :
        n \in {Some(Fx(105)), Some(Fx(115)), Some(Fx(125))},
        g \in {None, Some(0), Some(Fx(20)), Some(Fx(30)), Some(Dec(35))},
        c \in {"unknown", "early_growth", "commoditizing"}, t \in {"unknown", "low"},
        a \in BOOLEAN }

AnalyzeValuation ==
    /\ pc = "done"
    /\ \E pd \in PriceBundles :
          /\ price_data' = pd
          /\ val_signal' = analyze_valuation(result.verdict, data.ndr,
                                             data.revenue_growth_yoy, pd,
                                             data.category_stage)
    /\ pc' = "valued"
    /\ UNCHANGED <<data, result, now, calls, info, yf_data, tickers, position, results,
                   failed, enhanced>>

NextValuation == ComputeVerdict \/ AnalyzeValuation

InitValuation == InitWith(InputsValuation(CompanyData))

SpecValuation == InitValuation /\ [][NextValuation]_vars

\* ------------------------------------------------------------------
\* Consumer scenario: compute_verdict on consumer companies without a
\* routed retention signal
\* ------------------------------------------------------------------
\* ARPU, user and revenue growth absent, below, at and above the consumer
\* thresholds, in percent and in decimal form.
InputsConsumer(base) ==
    { [base EXCEPT !.business_model = "consumer", !.ndr = n, !.ndr_tier = 4,
                   !.arpu_growth_yoy = ar, !.active_user_growth_yoy = us,
                   !.revenue_growth_yoy = g] :
        n \in Opt(Fx(115)),
        ar \in {None, Some(Fx(-5)), Some(Dec(-5)), Some(0), Some(Fx(20)), Some(Dec(20)),
                Some(Fx(21)), Some(Fx(25))},
        us \in {None, Some(Fx(15)), Some(Dec(15)), Some(Fx(16)), Some(Fx(20))},
        g \in {None, Some(Fx(30)), Some(Fx(31)), Some(Dec(38)), Some(Fx(60))} }

InitConsumer == InitWith(InputsConsumer(CompanyData))

SpecConsumer == InitConsumer /\ [][Next]_vars

\* ------------------------------------------------------------------
\* Properties
\* ------------------------------------------------------------------

\* C3: Tier 1 decision order. For every input routed to Tier 1, with the
\* entry total NDR>=110 (1) + growth>=25 (1) or 20<=growth<25 (0.5) +
\* category emerging/early_growth (1) or mid_growth (0.5) + threat
\* low/medium (1) + switching cost high (1) or medium (0.5), and the exit
\* total NDR<110 (1) + revenue_decel_3q (1) + big_tech_announced (1) +
\* commoditizing (1) or mature (0.5) + threat high/very_high (0.5), the
\* verdict is the first match of: exit>=2 SELL; exit>=1 WATCH; NDR>=120 and
\* growth>=30 STRONG_BUY; entry>=5 STRONG_BUY; entry>=4 BUY; entry>=3 WATCH;
\* else AVOID.  (Totals below are in halves.)
C3_Tier1DecisionOrder ==
    (pc = "done" /\ result.data_tier = 1) =>
        LET ndr == Val(data.ndr)
            g == normalize_growth(data.revenue_growth_yoy)
            cat == data.category_stage
            thr == data.big_tech_threat
            sw == data.switching_cost
            entry == (IF ndr >= Fx(110) THEN 2 ELSE 0)
                     + (IF g # None /\ Val(g) >= Fx(25) THEN 2
                        ELSE IF g # None /\ Val(g) >= Fx(20) /\ Val(g) < Fx(25) THEN 1 ELSE 0)
                     + (CASE cat \in {"emerging", "early_growth"} -> 2
                          [] cat = "mid_growth" -> 1
                          [] OTHER -> 0)
                     + (IF thr \in {"low", "medium"} THEN 2 ELSE 0)
                     + (CASE sw = "high" -> 2 [] sw = "medium" -> 1 [] OTHER -> 0)
            exit == (IF ndr < Fx(110) THEN 2 ELSE 0)
                    + (IF data.revenue_decel_3q THEN 2 ELSE 0)
                    + (IF data.big_tech_announced THEN 2 ELSE 0)
                    + (CASE cat = "commoditizing" -> 2 [] cat = "mature" -> 1 [] OTHER -> 0)
                    + (IF thr \in {"high", "very_high"} THEN 1 ELSE 0)
            expected == CASE exit >= 4 -> "SELL"
                          [] exit < 4 /\ exit >= 2 -> "WATCH"
                          [] exit < 2 /\ ndr >= Fx(120) /\ g # None /\ Val(g) >= Fx(30) -> "STRONG_BUY"
                          [] exit < 2 /\ ~(ndr >= Fx(120) /\ g # None /\ Val(g) >= Fx(30))
                             /\ entry >= 10 -> "STRONG_BUY"
                          [] exit < 2 /\ ~(ndr >= Fx(120) /\ g # None /\ Val(g) >= Fx(30))
                             /\ entry < 10 /\ entry >= 8 -> "BUY"
                          [] exit < 2 /\ ~(ndr >= Fx(120) /\ g # None /\ Val(g) >= Fx(30))
                             /\ entry < 8 /\ entry >= 6 -> "WATCH"
                          [] OTHER -> "AVOID"
        IN result.verdict = expected

\* Witness for C3: the elite override decides a Tier 1 verdict whose entry
\* total is below 4 (the count thresholds alone would give less than BUY).
C3_Witness ==
    /\ pc = "done"
    /\ result.data_tier = 1
    /\ result.verdict = "STRONG_BUY"
    /\ result.rationale = "Elite"
    /\ result.entry_signals_met < Half(4)

\* C1: totality of compute_verdict. For every CompanyData (optional fields
\* present or absent, every value of the enumerated fields, data_updated
\* absent / malformed / valid) the call completes without raising and
\* returns a verdict in {STRONG_BUY, BUY, WATCH, SELL, AVOID}, a confidence
\* in {HIGH, MEDIUM, LOW, INSUFFICIENT} (never the scorers' empty
\* placeholder) and a data_tier in 1..4.
C1_Totality ==
    pc = "done" =>
        /\ result.raised = "none"
        /\ result.verdict \in {"STRONG_BUY", "BUY", "WATCH", "SELL", "AVOID"}
        /\ result.confidence \in {"HIGH", "MEDIUM", "LOW", "INSUFFICIENT"}
        /\ result.data_tier \in 1..4

\* Witness for C1: a record with a malformed data_updated and no retention,
\* growth or customer figure at all still gets a verdict and a confidence.
C1_Witness ==
    /\ pc = "done"
    /\ data.data_updated = Some(GarbageStr)
    /\ data.ndr = None /\ data.dbne = None /\ data.gross_retention = None
    /\ data.large_customer_ndr = None /\ data.implied_expansion = None
    /\ data.rpo_growth_yoy = None /\ data.revenue_growth_yoy = None
    /\ result.verdict = "WATCH"
    /\ result.confidence = "INSUFFICIENT"
    /\ result.staleness_warning

\* C2: tier routing is a total first-match-wins function of the retention
\* fields alone: 1 exactly when NDR is present with ndr_tier 1; otherwise 2
\* exactly when NDR is present with ndr_tier 2 or any of DBNE, gross
\* retention, large-customer NDR is present; otherwise 3 exactly when implied
\* expansion or RPO growth is present; otherwise 4; and the result of
\* compute_verdict carries that tier.
C2_TierRouting ==
    LET ndr1 == data.ndr # None /\ data.ndr_tier = 1
        variant == \/ (data.ndr # None /\ data.ndr_tier = 2)
                   \/ data.dbne # None
                   \/ data.gross_retention # None
                   \/ data.large_customer_ndr # None
        derived == data.implied_expansion # None \/ data.rpo_growth_yoy # None
        routed == CASE ndr1 -> 1
                    [] ~ndr1 /\ variant -> 2
                    [] ~ndr1 /\ ~variant /\ derived -> 3
                    [] OTHER -> 4
    IN /\ determine_data_tier(data) = routed
       /\ (pc = "done" => result.data_tier = routed)

\* Witness for C2: a record with an ndr_tier 3 NDR, a DBNE and an implied
\* expansion, of a consumer business, is scored by Tier 2.
C2_Witness ==
    /\ pc = "done"
    /\ result.data_tier = 2
    /\ data.ndr # None /\ data.ndr_tier = 3
    /\ data.dbne # None
    /\ data.implied_expansion # None
    /\ data.business_model = "consumer"

\* C4: exit dominance. For every input routed to Tier 1 or Tier 2, an
\* exit-signal total >= 2 gives SELL whatever the entry signals, the
\* retention quality and the growth are.
C4_ExitDominance ==
    (pc = "done" /\ result.data_tier \in {1, 2}) =>
        LET flags == (IF data.revenue_decel_3q THEN 2 ELSE 0)
                     + (IF data.big_tech_announced THEN 2 ELSE 0)
                     + (CASE data.category_stage = "commoditizing" -> 2
                          [] data.category_stage = "mature" -> 1
                          [] OTHER -> 0)
                     + (IF data.big_tech_threat \in {"high", "very_high"} THEN 1 ELSE 0)
            exit == IF result.data_tier = 1
                    THEN flags + (IF Val(data.ndr) < Fx(110) THEN 2 ELSE 0)
                    ELSE flags
        IN exit >= 4 => result.verdict = "SELL"

\* Witness for C4: an elite Tier 1 company (NDR >= 120, growth >= 30) is
\* sold on two exit signals.
C4_Witness ==
    /\ pc = "done"
    /\ result.data_tier = 1
    /\ Val(data.ndr) >= Fx(120)
    /\ data.revenue_growth_yoy # None
    /\ Val(normalize_growth(data.revenue_growth_yoy)) >= Fx(30)
    /\ data.switching_cost = "high"
    /\ result.exit_signals_triggered >= Half(2)
    /\ result.verdict = "SELL"

\* C5: Tier 3 ceiling. Every Tier 3 result is WATCH or SELL; it is SELL
\* exactly when implied expansion is present and its normalized value is
\* <= 0%.
C5_Tier3Ceiling ==
    (pc = "done" /\ result.data_tier = 3) =>
        LET contracting == /\ data.implied_expansion # None
                           /\ Val(normalize_growth(data.implied_expansion)) <= 0
        IN /\ result.verdict \in {"WATCH", "SELL"}
           /\ (result.verdict = "SELL" <=> contracting)
           /\ (~contracting => result.verdict = "WATCH")

\* Witness for C5: strong implied expansion, growth >= 25 and an RPO growth
\* ahead of revenue growth still give only WATCH.
C5_Witness ==
    /\ pc = "done"
    /\ result.data_tier = 3
    /\ data.implied_expansion # None
    /\ Val(normalize_growth(data.implied_expansion)) > Fx(15)
    /\ data.revenue_growth_yoy # None
    /\ Val(normalize_growth(data.revenue_growth_yoy)) >= Fx(25)
    /\ data.rpo_growth_yoy # None
    /\ Val(normalize_growth(data.rpo_growth_yoy))
         > Val(normalize_growth(data.revenue_growth_yoy))
    /\ result.verdict = "WATCH"

\* C6: Tier 2 ceiling and floor. Every Tier 2 result is SELL, WATCH or BUY;
\* it is BUY exactly when the aggregate retention signal is strong,
\* normalized growth is present and >= 25 and the exit total is < 2; it is
\* WATCH when retention is not weak, the exit total is < 2 and the BUY
\* condition fails.
C6_Tier2CeilingFloor ==
    (pc = "done" /\ result.data_tier = 2) =>
        LET g == normalize_growth(data.revenue_growth_yoy)
            agg == interpret_retention_signal(data)
            exit == (IF data.revenue_decel_3q THEN 2 ELSE 0)
                    + (IF data.big_tech_announced THEN 2 ELSE 0)
                    + (CASE data.category_stage = "commoditizing" -> 2
                         [] data.category_stage = "mature" -> 1
                         [] OTHER -> 0)
                    + (IF data.big_tech_threat \in {"high", "very_high"} THEN 1 ELSE 0)
            buy == agg = "strong" /\ g # None /\ Val(g) >= Fx(25) /\ exit < 4
        IN /\ result.verdict \in {"SELL", "WATCH", "BUY"}
           /\ (result.verdict = "BUY" <=> buy)
           /\ ((agg # "weak" /\ exit < 4 /\ ~buy) => result.verdict = "WATCH")

\* Witness for C6: a Tier 2 BUY although 1.5 exit signals are triggered.
C6_Witness ==
    /\ pc = "done"
    /\ result.data_tier = 2
    /\ result.verdict = "BUY"
    /\ data.revenue_decel_3q
    /\ data.big_tech_threat = "high"

\* C7: Tier 4 default branch (business model without its own branch, no
\* retention signal routed). The verdict is WATCH or SELL for every entry
\* total; it is SELL exactly when the branch's exit total (decel 1,
\* announced 1, commoditizing 1, threat high/very_high 0.5) is >= 2; and a
\* missing-signal entry naming NDR is always present.
C7_Tier4DefaultBranch ==
    (/\ pc = "done"
     /\ result.data_tier = 4
     /\ data.business_model \notin {"consumer", "marketplace", "transaction_based"}) =>
        LET exit == (IF data.revenue_decel_3q THEN 2 ELSE 0)
                    + (IF data.big_tech_announced THEN 2 ELSE 0)
                    + (IF data.category_stage = "commoditizing" THEN 2 ELSE 0)
                    + (IF data.big_tech_threat \in {"high", "very_high"} THEN 1 ELSE 0)
            namesNDR == {"NDR", "NDR/NRR (no retention data available)",
                         "Direct NDR for higher confidence", "NDR or retention data"}
        IN /\ result.verdict \in {"WATCH", "SELL"}
           /\ (result.verdict = "SELL" <=> exit >= 4)
           /\ \E i \in 1..Len(result.missing_signals) : result.missing_signals[i] \in namesNDR

\* Witness for C7: the maximum entry total 3.0 (growth >= 25, early category,
\* low threat, high switching cost) with no exit signal gives WATCH.
C7_Witness ==
    /\ pc = "done"
    /\ result.data_tier = 4
    /\ data.business_model = "hybrid"
    /\ result.entry_signals_met = Half(3)
    /\ result.exit_signals_triggered = 0
    /\ result.verdict = "WATCH"

\* C8: Tier 2 conservative combination. Over the metrics present among DBNE
\* (>=120/110/100), gross retention (>=97/93/90), large-customer NDR
\* (>=125/115/105) and tier-2 NDR (>=120/110/100), the aggregate is weak if
\* any metric reads weak and otherwise the most optimistic reading; a weak
\* aggregate gives SELL for every growth, exit flag and assessment.
C8_ConservativeCombination ==
    LET Rank(v, s, h, a) == IF v >= Fx(s) THEN 3 ELSE IF v >= Fx(h) THEN 2
                            ELSE IF v >= Fx(a) THEN 1 ELSE 0
        ranks == (IF data.dbne # None
                  THEN {Rank(Val(normalize_retention(data.dbne)), 120, 110, 100)} ELSE {})
                 \cup (IF data.gross_retention # None
                       THEN {Rank(Val(normalize_retention(data.gross_retention)), 97, 93, 90)}
                       ELSE {})
                 \cup (IF data.large_customer_ndr # None
                       THEN {Rank(Val(normalize_retention(data.large_customer_ndr)),
                                  125, 115, 105)}
                       ELSE {})
                 \cup (IF data.ndr # None /\ data.ndr_tier = 2
                       THEN {Rank(Val(data.ndr), 120, 110, 100)} ELSE {})
        name == [r \in 0..3 |-> CASE r = 3 -> "strong" [] r = 2 -> "healthy"
                                  [] r = 1 -> "acceptable" [] OTHER -> "weak"]
        agg == IF 0 \in ranks THEN "weak"
               ELSE name[CHOOSE r \in ranks : \A q \in ranks : q <= r]
    IN ranks # {} =>
          /\ interpret_retention_signal(data) = agg
          /\ (pc = "done" /\ result.data_tier = 2 /\ agg = "weak" => result.verdict = "SELL")

\* Witness for C8: one metric reads strong, another weak, growth is >= 25,
\* no exit flag is set, and the Tier 2 verdict is SELL.
C8_Witness ==
    /\ pc = "done"
    /\ result.data_tier = 2
    /\ data.dbne # None /\ Val(normalize_retention(data.dbne)) >= Fx(120)
    /\ data.gross_retention # None /\ Val(normalize_retention(data.gross_retention)) < Fx(90)
    /\ data.revenue_growth_yoy # None
    /\ Val(normalize_growth(data.revenue_growth_yoy)) >= Fx(25)
    /\ ~data.revenue_decel_3q /\ ~data.big_tech_announced
    /\ data.category_stage = "early_growth" /\ data.big_tech_threat = "low"
    /\ result.verdict = "SELL"

\* C9 (as claimed): confidence ordering. If B agrees with A on every field
\* populated in A and populates one or more of the fields absent in A, then
\* calculate_confidence_score(B) >= calculate_confidence_score(A).  A is the
\* record just scored; B ranges over every way of populating its absent
\* scored fields.
C9_ConfidenceOrdering ==
    pc = "done" =>
        LET scored == {"ndr", "dbne", "gross_retention", "large_customer_ndr",
                       "implied_expansion", "revenue_growth_yoy", "arr_millions",
                       "customers_100k_plus", "customer_growth_yoy"}
            absent == {f \in scored : data[f] = None}
            Populate(S) == [f \in DOMAIN data |-> IF f \in S THEN Some(Fx(115)) ELSE data[f]]
        IN \A S \in (SUBSET absent) \ {{}} :
              calculate_confidence_score(Populate(S)) >= result.confidence_score

\* C10 (as claimed): the confidence score lies in [0, 1] and a company with
\* every scored item present at its best quality scores exactly 1.0
\* (100 hundredths).
C10_WeightsSumToOne ==
    pc = "done" =>
        /\ result.confidence_score >= 0
        /\ result.confidence_score <= 100
        /\ ((/\ data.ndr # None /\ data.ndr_tier = 1
             /\ data.revenue_growth_yoy # None
             /\ data.revenue_decel_3q
             /\ data.arr_millions # None
             /\ data.big_tech_threat # "unknown"
             /\ data.category_stage # "unknown"
             /\ data.customers_100k_plus # None
             /\ data.customer_growth_yoy # None)
            => result.confidence_score = 100)

\* ------------------------------------------------------------------
\* C11: confidence measures completeness, not favourability.  Two records
\* with the same presence / absence pattern of every field, the same
\* ndr_tier and the same assessed-versus-unknown status of big_tech_threat
\* and category_stage receive the same confidence score and label: the
\* score and label compute_verdict returns for a record are those of the
\* record's pattern (every present number replaced by 0, every assessed
\* level by one fixed level, every flag by FALSE), whatever the values, the
\* routed tier and the verdict are.  The label is HIGH from 0.70, MEDIUM
\* from 0.45, LOW from 0.25, else INSUFFICIENT.
\* ------------------------------------------------------------------
C11_ConfidenceIsCompleteness ==
    LET Mark(x) == IF x = None THEN None ELSE Some(0)
        Assessed(x) == IF x = "unknown" THEN "unknown" ELSE "assessed"
        Pattern(d) ==
            [ ticker |-> "",
              business_model |-> "",
              revenue_growth_yoy |-> Mark(d.revenue_growth_yoy),
              ndr |-> Mark(d.ndr),
              ndr_tier |-> d.ndr_tier,
              gross_retention |-> Mark(d.gross_retention),
              dbne |-> Mark(d.dbne),
              large_customer_ndr |-> Mark(d.large_customer_ndr),
              implied_expansion |-> Mark(d.implied_expansion),
              rpo_growth_yoy |-> Mark(d.rpo_growth_yoy),
              arpu_growth_yoy |-> Mark(d.arpu_growth_yoy),
              active_user_growth_yoy |-> Mark(d.active_user_growth_yoy),
              gmv_growth_yoy |-> Mark(d.gmv_growth_yoy),
              take_rate |-> Mark(d.take_rate),
              take_rate_trend |-> Mark(d.take_rate_trend),
              tpv_growth_yoy |-> Mark(d.tpv_growth_yoy),
              gross_profit_growth_yoy |-> Mark(d.gross_profit_growth_yoy),
              arr_millions |-> Mark(d.arr_millions),
              customers_100k_plus |-> Mark(d.customers_100k_plus),
              customer_growth_yoy |-> Mark(d.customer_growth_yoy),
              big_tech_threat |-> Assessed(d.big_tech_threat),
              category_stage |-> Assessed(d.category_stage),
              switching_cost |-> "",
              big_tech_announced |-> FALSE,
              revenue_decel_3q |-> FALSE,
              data_updated |-> Mark(d.data_updated) ]
        Label(score) == IF score >= 70 THEN "HIGH"
                        ELSE IF score >= 45 THEN "MEDIUM"
                        ELSE IF score >= 25 THEN "LOW"
                        ELSE "INSUFFICIENT"
        ofPattern == compute_verdict(Pattern(data), now)
    IN pc = "done" =>
         /\ result.confidence_score = ofPattern.confidence_score
         /\ result.confidence = ofPattern.confidence
         /\ result.confidence = Label(result.confidence_score)

\* A fully disclosed record with terrible metrics (zero growth, NDR below
\* 100%, commoditizing category, deceleration flagged) is rated SELL with
\* the same score, 0.85, as a fully disclosed record with good metrics.
C11_Witness ==
    /\ pc = "done"
    /\ result.verdict = "SELL"
    /\ result.data_tier = 1
    /\ data.ndr = Some(Fx(95))
    /\ data.revenue_growth_yoy = Some(0)
    /\ data.arr_millions = Some(0)
    /\ data.revenue_decel_3q
    /\ data.category_stage = "commoditizing"
    /\ data.big_tech_threat = "very_high"
    /\ data.customers_100k_plus # None
    /\ result.confidence_score = 85
    /\ result.confidence = "HIGH"

\* ------------------------------------------------------------------
\* C12: staleness check.  With no data_updated date (None or the empty
\* string) the evaluation reports stale with the one entry 'no date
\* recorded'; with an unparseable date it reports stale with the one entry
\* 'invalid date format' and raises nothing; with a valid date of age d
\* days at evaluation time the stale list contains 'financials' iff
\* d > 100, 'NDR' iff d > 100 and NDR is present, 'competitive assessment'
\* iff d > 180, and is empty iff d <= 100; the staleness flag is true
\* exactly when the list is non-empty.
\* ------------------------------------------------------------------
C12_StalenessCheck ==
    LET fields == result.stale_fields
        listed == { fields[i].what : i \in 1..Len(fields) }
        du == data.data_updated
    IN pc = "done" =>
         /\ result.raised = "none"
         /\ result.staleness_warning = (Len(fields) > 0)
         /\ IF du = None \/ Val(du).text = ""
            THEN /\ Len(fields) = 1
                 /\ listed = {"data_updated (no date recorded)"}
                 /\ result.staleness_warning
            ELSE IF Val(du).text # "date"
            THEN /\ Len(fields) = 1
                 /\ listed = {"data_updated (invalid date format)"}
                 /\ result.staleness_warning
            ELSE LET d == now - Val(du).day IN
                 /\ ("financials" \in listed) = (d > 100)
                 /\ ("NDR" \in listed) = (d > 100 /\ data.ndr # None)
                 /\ ("competitive assessment" \in listed) = (d > 180)
                 /\ listed \subseteq {"financials", "NDR", "competitive assessment"}
                 /\ (fields = << >>) = (d <= 100)
                 /\ \A i \in 1..Len(fields) : fields[i].days = d

\* A record with NDR evaluated 120 days after its data_updated date:
\* 'financials' and 'NDR' are listed, 'competitive assessment' is not.
C12_Witness ==
    /\ pc = "done"
    /\ data.data_updated # None
    /\ Val(data.data_updated).text = "date"
    /\ now - Val(data.data_updated).day = 120
    /\ data.ndr # None
    /\ result.staleness_warning
    /\ Len(result.stale_fields) = 2
    /\ result.stale_fields[1].what = "financials"
    /\ result.stale_fields[2].what = "NDR"

\* The categories an evaluation reports stale; whether the record carries a
\* parseable date.
StaleCategories(r) == { r.stale_fields[i].what : i \in 1..Len(r.stale_fields) }

HasValidDate == data.data_updated # None /\ Val(data.data_updated).text = "date"

\* ------------------------------------------------------------------
\* C13: progressive staleness under an advancing clock.  For a record with
\* a valid data_updated date that is never mutated, evaluated day after
\* day: (a) the set of stale categories of an evaluation contains the set
\* of the evaluation before it; (b) no evaluation lists 'competitive
\* assessment' without 'financials', so the record passes from fresh to
\* 'financials' to additionally 'competitive assessment' in that order;
\* (c) the record is never mutated; (d) every such record is eventually
\* reported stale in both categories.
\* ------------------------------------------------------------------
C13_ProgressiveStaleness ==
    /\ [][ /\ data' = data
           /\ (HasValidDate /\ pc = "ready" /\ pc' = "done")
                => StaleCategories(result) \subseteq StaleCategories(result') ]_vars
    /\ [](HasValidDate /\ "competitive assessment" \in StaleCategories(result)
            => "financials" \in StaleCategories(result))
    /\ (HasValidDate
          ~> (/\ pc = "done"
              /\ {"financials", "competitive assessment"}
                    \subseteq StaleCategories(result)))

\* A record that an earlier evaluation found fresh, and a later evaluation
\* of the same record finds stale in both categories.
C13_Witness ==
    /\ pc = "done"
    /\ Len(calls) >= 1
    /\ calls[1].arg = data
    /\ calls[1].ret.staleness_warning = FALSE
    /\ calls[1].ret.stale_fields = << >>
    /\ result.staleness_warning
    /\ \E i, j \in 1..Len(result.stale_fields) :
          /\ result.stale_fields[i].what = "financials"
          /\ result.stale_fields[j].what = "competitive assessment"

C15_CountsTruncated ==
    LET Truncated(h) == h - (h % 2)
        growth == normalize_growth(data.revenue_growth_yoy)
    IN pc = "done" =>
         /\ result.entry_signals_met % 2 = 0
         /\ result.exit_signals_triggered % 2 = 0
         /\ result.data_tier = 1 =>
              /\ result.entry_signals_met = Truncated(tier1_entry_signals(data, growth))
              /\ result.exit_signals_triggered = Truncated(tier1_exit_signals(data))
         /\ (/\ result.data_tier = 2
             /\ interpret_retention_signal(data) # "weak"
             /\ tier2_exit_signals(data) >= Half(EXIT_SELL)) =>
              result.exit_signals_triggered = Truncated(tier2_exit_signals(data))

\* ------------------------------------------------------------------
\* C16: growth normalization.  _normalize_growth(None) is None; a value x
\* with -1 < x < 1 and x # 0 is returned as 100 * x; every other value is
\* returned unchanged.  So the fraction form p / 100 and the percent form p
\* of a growth rate normalize to the same value p, for each growth field of
\* the record that compute_verdict normalizes.
\* ------------------------------------------------------------------
C16_GrowthNormalization ==
    LET IsFraction(v) == -Fx(1) < Val(v) /\ Val(v) < Fx(1) /\ Val(v) # 0
        PercentForm(v) == Some(100 * Val(v))
        Expected(v) == IF v = None THEN None
                       ELSE IF IsFraction(v) THEN PercentForm(v)
                       ELSE v
    IN pc = "done" =>
         \A v \in {data.revenue_growth_yoy, data.tpv_growth_yoy,
                    data.gross_profit_growth_yoy} :
            /\ normalize_growth(v) = Expected(v)
            /\ (v # None /\ IsFraction(v) /\ Val(PercentForm(v)) >= Fx(1))
                 => normalize_growth(v) = normalize_growth(PercentForm(v))

\* ------------------------------------------------------------------
\* C17: retention representation independence.  _normalize_retention
\* returns 100 * v for v < 2.0 and v unchanged otherwise, so supplying
\* DBNE, gross retention or large-customer NDR as the decimal r / 100 or as
\* the percentage r gives the same normalized value, the same Tier 2
\* retention reading and the same verdict and data_tier.
\* ------------------------------------------------------------------
C17_RetentionRepresentation ==
    LET PercentForm(v) == IF v # None /\ Val(v) < Fx(2) THEN Some(100 * Val(v)) ELSE v
        inPercent == [data EXCEPT !.dbne = PercentForm(@),
                                  !.gross_retention = PercentForm(@),
                                  !.large_customer_ndr = PercentForm(@)]
        ofPercent == compute_verdict(inPercent, now)
    IN pc = "done" =>
         /\ normalize_retention(data.dbne) = normalize_retention(inPercent.dbne)
         /\ normalize_retention(data.gross_retention)
              = normalize_retention(inPercent.gross_retention)
         /\ normalize_retention(data.large_customer_ndr)
              = normalize_retention(inPercent.large_customer_ndr)
         /\ interpret_retention_signal(data) = interpret_retention_signal(inPercent)
         /\ result.verdict = ofPercent.verdict
         /\ result.data_tier = ofPercent.data_tier

\* ------------------------------------------------------------------
\* C18: manual-over-live merge.  build_company_data uses the manual
\* record's revenue_growth_yoy whenever the manual record carries one, for
\* every explicit manual value (0 and negative growth included), and the
\* live value only when the manual record has no value for the field.
\* ------------------------------------------------------------------
C18_ManualOverLive ==
    pc # "build" =>
      /\ (info.revenue_growth_yoy # None /\ yf_data.revenue_growth_yoy # None)
           => data.revenue_growth_yoy = info.revenue_growth_yoy
      /\ info.revenue_growth_yoy = None
           => data.revenue_growth_yoy = yf_data.revenue_growth_yoy

\* The tickers among the first n of the list that are in the database and
\* whose analysis did not raise, in input order; the tickers of the result
\* list; the loop kinds and their returned states.
RECURSIVE KnownAndAnalyzed(_)
KnownAndAnalyzed(n) ==
    IF n = 0 THEN << >>
    ELSE IF tickers[n] \in COMPANY_DATABASE /\ n \notin failed
         THEN Append(KnownAndAnalyzed(n - 1), tickers[n])
         ELSE KnownAndAnalyzed(n - 1)

ResultTickers == [i \in 1..Len(results) |-> results[i].ticker]

LoopReturned == pc \in {"batch_returned", "enhanced_main_returned", "dashboard_returned"}

C20_OverlayKeepsFundamental ==
    /\ pc = "done" =>
          \A v \in Verdicts, c \in {"HIGH", "MEDIUM", "LOW"}, s \in ValuationSignals :
             LET e == compute_enhanced_verdict(v, c, s, data.ndr, data.revenue_growth_yoy)
             IN  e.fundamental_verdict = v /\ e.confidence = c
    /\ pc = "enhanced" =>
          /\ enhanced.fundamental_verdict = result.verdict
          /\ enhanced.confidence = result.confidence
          /\ result = calls[Len(calls)].ret

\* The overlay has run on a fundamental BUY and changed the recommendation:
\* the valuation verdict is an upgrade or a downgrade of it.
C20_Witness ==
    /\ pc = "enhanced"
    /\ result.verdict = "BUY"
    /\ enhanced.valuation_verdict \in {"STRONG_BUY", "WATCH"}
    /\ enhanced.timing \in {"buy_now", "wait_for_pullback"}

\* ------------------------------------------------------------------
\* C21: output domain of the valuation overlay.  For every fundamental
\* verdict and every price bundle, bundles with a missing P/S ratio,
\* growth, RSI or 52-week data included, analyze_valuation returns a
\* valuation_tier among cheap, fair, expensive, very_expensive and an
\* opportunity_score with 0 <= score <= 100.
\* ------------------------------------------------------------------
C21_ValuationDomain ==
    pc = "valued" =>
       /\ val_signal.valuation_tier \in ValuationTiers
       /\ 0 <= val_signal.opportunity_score
       /\ val_signal.opportunity_score <= 100

\* ------------------------------------------------------------------
\* C22: missing data is recorded, not raised.  In every tier and on every
\* verdict path, the early SELL returns included, an absent revenue growth
\* earns the credit of a zero growth (none) and the result's
\* missing_signals holds a "Revenue growth" entry; in Tier 1 an absent NDR
\* is listed as "NDR".
\* ------------------------------------------------------------------
C22_MissingDataRecorded ==
    (pc = "done" /\ result.raised = "none") =>
       /\ (result.data_tier = 1 /\ data.ndr = None) =>
             \E i \in DOMAIN result.missing_signals : result.missing_signals[i] = "NDR"
       /\ data.revenue_growth_yoy = None =>
             /\ result.data_tier = 1 =>
                   result.entry_signals_met = IntTrunc(tier1_entry_signals(data, Some(0)))
             /\ (result.data_tier = 2 /\ result.verdict # "SELL") =>
                   result.entry_signals_met =
                      IntTrunc(tier2_entry_signals(interpret_retention_signal(data), Some(0)))
             /\ \E i \in DOMAIN result.missing_signals :
                   result.missing_signals[i] = "Revenue growth"

\* ------------------------------------------------------------------
\* C23: retention component of the confidence score.  The part of the
\* score that is not growth, trend, ARR, competitive or customer credit is
\* 0.25, 0.15 or 0.08 when NDR is present with ndr_tier 1, 2 or 3, and 0
\* whenever NDR is absent or ndr_tier is 4, whichever of DBNE, gross
\* retention, large-customer NDR and implied expansion are present.
\* ------------------------------------------------------------------
C23_RetentionComponent ==
    (pc = "done" /\ result.raised = "none") =>
       LET others ==
               (IF data.revenue_growth_yoy # None THEN SIGNAL_WEIGHTS.revenue_growth_current ELSE 0)
               + SIGNAL_WEIGHTS.revenue_growth_trend
               + (IF data.arr_millions # None THEN SIGNAL_WEIGHTS.arr_disclosed ELSE 0)
               + (IF data.big_tech_threat # "unknown"
                  THEN SIGNAL_WEIGHTS.big_tech_threat_assessed ELSE 0)
               + (IF data.category_stage # "unknown"
                  THEN SIGNAL_WEIGHTS.category_stage_assessed ELSE 0)
               + (IF data.customers_100k_plus # None
                  THEN SIGNAL_WEIGHTS.large_customer_count ELSE 0)
               + (IF data.customer_growth_yoy # None
                  THEN SIGNAL_WEIGHTS.customer_growth_rate ELSE 0)
           retention == result.confidence_score - others
       IN  retention = IF data.ndr = None THEN 0
                       ELSE IF data.ndr_tier = 1 THEN 25
                       ELSE IF data.ndr_tier = 2 THEN 15
                       ELSE IF data.ndr_tier = 3 THEN 8
                       ELSE 0

\* ------------------------------------------------------------------
\* C24: revenue-trend credit.  For a record built by build_company_data,
\* the part of the confidence score that is not retention, growth, ARR,
\* competitive or customer credit is the 0.10 trend weight exactly when the
\* database record has a revenue_decel_3q entry, true or false alike, and
\* 0 when it has none.
\* ------------------------------------------------------------------
C24_TrendCredit ==
    (pc = "done" /\ result.raised = "none") =>
       LET others ==
               retention_weight(data)
               + (IF data.revenue_growth_yoy # None THEN SIGNAL_WEIGHTS.revenue_growth_current ELSE 0)
               + (IF data.arr_millions # None THEN SIGNAL_WEIGHTS.arr_disclosed ELSE 0)
               + (IF data.big_tech_threat # "unknown"
                  THEN SIGNAL_WEIGHTS.big_tech_threat_assessed ELSE 0)
               + (IF data.category_stage # "unknown"
                  THEN SIGNAL_WEIGHTS.category_stage_assessed ELSE 0)
               + (IF data.customers_100k_plus # None
                  THEN SIGNAL_WEIGHTS.large_customer_count ELSE 0)
               + (IF data.customer_growth_yoy # None
                  THEN SIGNAL_WEIGHTS.customer_growth_rate ELSE 0)
           trend == result.confidence_score - others
       IN  trend = IF info.revenue_decel_3q # None
                   THEN SIGNAL_WEIGHTS.revenue_growth_trend ELSE 0

\* ------------------------------------------------------------------
\* C25: research recommendations are the ordered filter of missing items.
\* The recommendations are, in the order NDR, gross retention, revenue
\* growth, big-tech assessment, category-stage assessment, switching-cost
\* assessment, $100K+ customers, business-model metric, exactly one entry
\* for each item that is absent or 'unknown' and none for the others; with
\* NDR absent, under any ndr_tier, an NDR recommendation comes first.
\* ------------------------------------------------------------------
C25_ResearchRecommendations ==
    (pc = "done" /\ result.raised = "none") =>
       \E ndr_rec \in {"Search earnings call for NDR/NRR/DBNE disclosure",
                       "Calculate implied expansion"} :
          result.research_recommendations =
                Rec(data.ndr = None, ndr_rec)
             \o Rec(data.gross_retention = None, "Look for gross retention rate")
             \o Rec(data.revenue_growth_yoy = None, "Fetch latest quarterly revenue")
             \o Rec(data.big_tech_threat = "unknown", "Assess Big Tech threat")
             \o Rec(data.category_stage = "unknown", "Assess category stage")
             \o Rec(data.switching_cost = "unknown", "Assess switching costs")
             \o Rec(data.customers_100k_plus = None, "Look for $100K+ customer count")
             \o Rec(data.business_model = "consumer" /\ data.arpu_growth_yoy = None,
                    "Find ARPU and active user metrics")
             \o Rec(data.business_model = "marketplace" /\ data.gmv_growth_yoy = None,
                    "Find GMV and take rate")
             \o Rec(data.business_model = "transaction_based" /\ data.tpv_growth_yoy = None,
                    "Find TPV and gross profit margin")

\* ------------------------------------------------------------------
\* C26: the Tier 4 default branch reuses the Tier 1 exit check.  For every
\* combination of revenue_decel_3q, big_tech_announced, category_stage and
\* big_tech_threat, the exit total of the Tier 4 default branch is the one
\* Tier 2, and Tier 1 with an NDR at the entry threshold or above, compute
\* from the same fields, and the Tier 4 default verdict is SELL on exactly
\* the flag combinations on which the same record with a healthy DBNE
\* (Tier 2) or with a direct NDR (Tier 1) is SELL.
\* ------------------------------------------------------------------
C26_Tier4ReusesExitCheck ==
    (/\ pc = "done"
     /\ result.raised = "none"
     /\ result.data_tier = 4
     /\ data.business_model \notin {"consumer", "marketplace", "transaction_based"}) =>
       LET as_tier1 == [data EXCEPT !.ndr = Some(Fx(NDR_ELITE_THRESHOLD)), !.ndr_tier = 1]
           as_tier2 == [data EXCEPT !.dbne = Some(Fx(DBNE_HEALTHY))]
       IN  /\ tier4_exit_signals(data) = tier2_exit_signals(as_tier2)
           /\ tier4_exit_signals(data) = tier1_exit_signals(as_tier1)
           /\ (result.verdict = "SELL") = (compute_verdict(as_tier2, now).verdict = "SELL")
           /\ (result.verdict = "SELL") = (compute_verdict(as_tier1, now).verdict = "SELL")

\* ------------------------------------------------------------------
\* C27 (as amended): Tier 4 consumer decision order, first match wins.
\* For every consumer company with no retention signal: normalized ARPU
\* growth present and < 0 gives SELL, whatever the user and revenue
\* growth; else ARPU growth > 20 and active-user growth > 15 (both present,
\* strict) gives BUY; else revenue growth > 30 (strict) gives the
\* "strong revenue growth" WATCH; else the default WATCH.  An absent ARPU
\* growth never yields SELL or BUY and an absent user growth never yields
\* BUY.
\* ------------------------------------------------------------------
C27_ConsumerDecisionOrder ==
    (/\ pc = "done"
     /\ result.raised = "none"
     /\ result.data_tier = 4
     /\ data.business_model = "consumer") =>
       LET arpu == normalize_growth(data.arpu_growth_yoy)
           user_growth == normalize_growth(data.active_user_growth_yoy)
           growth == normalize_growth(data.revenue_growth_yoy)
           sell == arpu # None /\ Val(arpu) < 0
           buy == /\ arpu # None /\ Val(arpu) > Fx(20)
                  /\ user_growth # None /\ Val(user_growth) > Fx(15)
           strong_revenue == growth # None /\ Val(growth) > Fx(30)
       IN  /\ sell => result.verdict = "SELL"
           /\ (~sell /\ buy) => result.verdict = "BUY"
           /\ (~sell /\ ~buy /\ strong_revenue) =>
                 /\ result.verdict = "WATCH"
                 /\ result.rationale = "Tier 4 Consumer: Strong revenue growth"
           /\ (~sell /\ ~buy /\ ~strong_revenue) =>
                 /\ result.verdict = "WATCH"
                 /\ result.rationale = "Tier 4 Consumer: Insufficient consumer metrics"
           /\ data.arpu_growth_yoy = None => result.verdict \notin {"SELL", "BUY"}
           /\ data.active_user_growth_yoy = None => result.verdict # "BUY"

\* A consumer company whose ARPU shrinks is SELL although its user and
\* revenue growth are above every threshold.
C27_Witness ==
    /\ pc = "done"
    /\ result.data_tier = 4
    /\ data.business_model = "consumer"
    /\ data.arpu_growth_yoy = Some(Fx(-5))
    /\ data.active_user_growth_yoy = Some(Fx(20))
    /\ data.revenue_growth_yoy = Some(Fx(60))
    /\ result.verdict = "SELL"

\* C27 as stated: with ARPU growth or user growth absent, a consumer
\* company is never SELL and never BUY.
C27_AbsentNeverSellOrBuy ==
    (/\ pc = "done"
     /\ result.raised = "none"
     /\ result.data_tier = 4
     /\ data.business_model = "consumer"
     /\ (data.arpu_growth_yoy = None \/ data.active_user_growth_yoy = None)) =>
       result.verdict \notin {"SELL", "BUY"}

\* ------------------------------------------------------------------
\* C28: whenever the router selects Tier 2, the aggregate retention signal
\* of _interpret_retention_signal is strong, healthy, acceptable or weak
\* and never 'unknown': each routing condition of Tier 2 (tier-2 NDR, DBNE,
\* gross retention, large-customer NDR present) contributes a reading.
\* ------------------------------------------------------------------
C28_Tier2SignalKnown ==
    (pc = "done" /\ result.raised = "none" /\ result.data_tier = 2) =>
       /\ interpret_retention_signal(data) \in {"strong", "healthy", "acceptable", "weak"}
       /\ (data.ndr # None /\ data.ndr_tier = 2) =>
             interpret_retention_signal([data EXCEPT !.dbne = None,
                                                     !.gross_retention = None,
                                                     !.large_customer_ndr = None])
                # "unknown"
       /\ data.dbne # None =>
             interpret_retention_signal([data EXCEPT !.ndr = None,
                                                     !.gross_retention = None,
                                                     !.large_customer_ndr = None])
                # "unknown"
       /\ data.gross_retention # None =>
             interpret_retention_signal([data EXCEPT !.ndr = None, !.dbne = None,
                                                     !.large_customer_ndr = None])
                # "unknown"
       /\ data.large_customer_ndr # None =>
             interpret_retention_signal([data EXCEPT !.ndr = None, !.dbne = None,
                                                     !.gross_retention = None])
                # "unknown"

\* Tier 2 was selected by a tier-2 NDR alone, and the verdict was computed
\* from its reading.
C28_Witness ==
    /\ pc = "done"
    /\ result.data_tier = 2
    /\ data.ndr # None /\ data.ndr_tier = 2
    /\ data.dbne = None /\ data.gross_retention = None /\ data.large_customer_ndr = None
    /\ interpret_retention_signal(data) \in {"strong", "healthy"}

\* ------------------------------------------------------------------
\* C29: exit signals never help in Tier 1.  With the verdicts ranked
\* AVOID < SELL < WATCH < BUY < STRONG_BUY, for every Tier 1 input, the
\* same input with one exit signal turned on (revenue_decel_3q or
\* big_tech_announced set, or big_tech_threat raised from unknown to high
\* or very_high) never has a higher-ranked verdict.
\* ------------------------------------------------------------------
C29_ExitSignalsNeverHelp ==
    (pc = "done" /\ result.raised = "none" /\ result.data_tier = 1) =>
       LET rank == [v \in Verdicts |->
                      CASE v = "AVOID" -> 0 [] v = "SELL" -> 1 [] v = "WATCH" -> 2
                        [] v = "BUY" -> 3 [] v = "STRONG_BUY" -> 4]
           turned_on ==
               (IF data.revenue_decel_3q THEN {}
                ELSE {[data EXCEPT !.revenue_decel_3q = TRUE]})
               \cup (IF data.big_tech_announced THEN {}
                     ELSE {[data EXCEPT !.big_tech_announced = TRUE]})
               \cup (IF data.big_tech_threat # "unknown" THEN {}
                     ELSE {[data EXCEPT !.big_tech_threat = t] : t \in {"high", "very_high"}})
       IN  \A d \in turned_on :
              rank[compute_verdict(d, now).verdict] <= rank[result.verdict]

\* ------------------------------------------------------------------
\* C30: STRONG_BUY and AVOID come only from Tier 1.  If compute_verdict
\* returns STRONG_BUY or AVOID then data_tier = 1 (NDR present with
\* ndr_tier = 1); every Tier 2, Tier 3 and Tier 4 result, the consumer,
\* marketplace and transaction branches included, has a verdict among BUY,
\* WATCH, SELL; the marketplace branch never returns SELL and the
\* transaction branch never returns BUY.
\* ------------------------------------------------------------------
C30_ExtremesOnlyFromTier1 ==
    (pc = "done" /\ result.raised = "none") =>
       /\ result.verdict \in {"STRONG_BUY", "AVOID"} =>
             /\ result.data_tier = 1
             /\ data.ndr # None
             /\ data.ndr_tier = 1
       /\ result.data_tier \in {2, 3, 4} => result.verdict \in {"BUY", "WATCH", "SELL"}
       /\ (result.data_tier = 4 /\ data.business_model = "marketplace") =>
             result.verdict # "SELL"
       /\ (result.data_tier = 4 /\ data.business_model = "transaction_based") =>
             result.verdict # "BUY"

\* A marketplace whose take rate decreases, judged in Tier 4: the branch
\* has warned and returned WATCH.
C30_Witness ==
    /\ pc = "done"
    /\ result.data_tier = 4
    /\ data.business_model = "marketplace"
    /\ data.take_rate_trend = Some("decreasing")
    /\ result.verdict = "WATCH"

====
